---- MODULE Spec2Model ----
(***************************************************************************)
(* Microsoft login counter.                                                *)
(*                                                                         *)
(* Part A: the browser extension (extension/background/login-detector.ts,  *)
(*         extension/storage/storage-manager.ts): navigation listener with *)
(*         cooldown, and the asynchronous read-append-write of             *)
(*         storeLoginEvent on chrome.storage.local.                        *)
(* Part B: the proxy session correlator (research.md, "Detection           *)
(*         Strategy": http_connect / request over the sessions dict).      *)
(* Part C: the pure functions (extension/lib/date-utils.ts,                *)
(*         extension/lib/statistics.ts, isLoginSuccess), each applied to   *)
(*         arguments drawn from bounded sets.                              *)
(***************************************************************************)
EXTENDS Integers, Sequences, FiniteSets, TLC

VARIABLES
    clock,          \* Date.now(), milliseconds
    lastLoginTime,  \* login-detector.ts module variable
    listening,      \* webNavigation.onCompleted listener registered
    initPc,         \* position of initialize() (login-detector.ts)
    installPc,      \* position of the runtime.onInstalled handler
    storage,        \* chrome.storage.local: key -> value, absent keys not in DOMAIN
    calls,          \* storeLoginEvent invocations, in the order they were started
    nav,            \* the navigation event handled last, with its outcome
    cleared,        \* StorageManager.clear() has been called (the extension was reset)
    holder,         \* the storeLoginEvent call whose updatedMetadata object is the stored
                    \* 'metadata' (0: the object of no call)
    time,           \* time.time() of the proxy, seconds
    sessions,       \* the sessions dict of the proxy: set of (id, t) items
    recorded,       \* record_login_event() calls so far, per session id
    connects,       \* CONNECTs to the identity provider so far, per session id
    obs,            \* the proxy observation handled last
    th,             \* request() invocations running on proxy threads
    fx,             \* the pure function applied last: its arguments and its result
    tz,             \* the time zone of the host the scripts run on
    currentPeriod,  \* dashboard: the selected period filter (graph.js)
    chartInstance,  \* dashboard: the data the chart shows
    autoRefreshInterval,    \* dashboard: the 5 s interval of the graph is set
    statsRefreshInterval,   \* dashboard: the 5 s interval of the statistics is set
    cards,          \* dashboard: textContent of the four statistics cards
    fetches,        \* dashboard: the requests in flight
    issued,         \* dashboard: number of requests issued so far
    version,        \* server: number of login events recorded while the page is open
    completed,      \* dashboard: the request completed last, with its outcome
    popup,          \* popup: the statistics view and the position of renderStatistics
    history         \* popup: the history view and the renderHistory calls in flight

extVars == <<clock, lastLoginTime, listening, initPc, installPc, storage, calls, nav, cleared,
             holder>>
proxyVars == <<time, sessions, recorded, connects, obs, th>>
pureVars == <<fx, tz>>
dashVars == <<currentPeriod, chartInstance, autoRefreshInterval, statsRefreshInterval,
              cards, fetches, issued, version, completed>>
uiVars == <<currentPeriod, chartInstance, autoRefreshInterval, statsRefreshInterval,
            cards, fetches, issued, version, completed, popup, history>>
vars == <<clock, lastLoginTime, listening, initPc, installPc, storage, calls, nav, cleared,
          holder,
          time, sessions, recorded, connects, obs, th, fx, tz,
          currentPeriod, chartInstance, autoRefreshInterval, statsRefreshInterval,
          cards, fetches, issued, version, completed, popup, history>>

(***************************************************************************)
(* Bounds                                                                  *)
(***************************************************************************)
MaxTicks == 2        \* advances of Date.now()
MaxCalls == 2        \* accepted logins (storeLoginEvent invocations)
MaxFaults == 1       \* storage operations of storeLoginEvent that reject
MaxProxyTicks == 4   \* advances of time.time()
MaxRecorded == 2     \* record_login_event() calls per session id
MaxConnects == 2     \* CONNECTs per session id
MaxEvents == 2       \* events in the list given to computeStatistics
MaxFetches == 3      \* requests the dashboard page issues
MaxVersions == 1     \* logins the server records while the page is open
MaxClicks == 3       \* clicks on the popup's history tab
MaxPoints == 3       \* data points (bars) given to calculateGradientColors

StartClocks == {10000}  \* Date.now() when the background script is loaded
ClockSteps == {500}     \* advances of Date.now(), milliseconds
TimeSteps == {30}       \* advances of time.time(), seconds

(***************************************************************************)
(* String helpers (String.prototype.startsWith / includes, Python `in`)    *)
(***************************************************************************)
startsWith(s, p) == Len(s) >= Len(p) /\ SubSeq(s, 1, Len(p)) = p

includes(s, p) == \E i \in 1..(Len(s) - Len(p) + 1) : SubSeq(s, i, i + Len(p) - 1) = p

(***************************************************************************)
(* Part A - login-detector.ts                                              *)
(***************************************************************************)
COOLDOWN_MS == 1000

LoginOrigin == "https://login.microsoftonline.com/"

\* isLoginSuccess without the test of the https origin
isLoginSuccess_AnyOrigin(url) ==
    LET hasAuthCode == includes(url, "code=") /\ includes(url, "oauth2")
        isTokenEndpoint == includes(url, "/oauth2/v2.0/token") \/ includes(url, "/oauth2/token")
    IN  hasAuthCode \/ isTokenEndpoint

isLoginSuccess(url) ==
    IF ~startsWith(url, LoginOrigin)
    THEN FALSE
    ELSE LET hasAuthCode == includes(url, "code=") /\ includes(url, "oauth2")
             isTokenEndpoint == includes(url, "/oauth2/v2.0/token") \/ includes(url, "/oauth2/token")
         IN  hasAuthCode \/ isTokenEndpoint

\* id stands for generateUUID(): a value no earlier event carries; now is Date.now() as
\* createLoginEvent reads it, after the listener has read its own
createLoginEvent(id, url, timestamp, now) ==
    [id |-> id, timestamp |-> timestamp, url |-> url, detected_at |-> now]

Urls == {"https://login.microsoftonline.com/common/oauth2/v2.0/authorize?code=ABC123",
         "https://login.microsoftonline.com/common/login"}
FrameIds == {0, 1}
Tabs == {1, 2}
Lags == {0}    \* Date.now() - details.timeStamp when the listener runs
Skews == {0, 1}    \* milliseconds between the two reads of Date.now() in the listener

NoNav == [tabId |-> 0, at |-> 0, verdict |-> "none"]

(***************************************************************************)
(* Part A - storage-manager.ts                                             *)
(***************************************************************************)
EmptyStorage == [k \in {} |-> 0]

Has(st, k) == k \in DOMAIN st

\* StorageSchema written by StorageManager.initialize()
FreshMetadata == [version |-> "1.0.0", eventCount |-> 0, storageBytes |-> 0, usesIndexedDB |-> FALSE]

InitializedStorage == [k \in {"loginEvents", "metadata"} |->
                         IF k = "loginEvents" THEN <<>> ELSE FreshMetadata]

\* chrome.storage.local.set(items): overwrites the keys of items, keeps the others. The
\* chrome.storage.local the repository's tests run on is Object.assign(storageData, items):
\* it keeps the objects it is given, not copies of them (see holder)
StorageSet(st, items) ==
    [k \in (DOMAIN st) \cup (DOMAIN items) |-> IF k \in DOMAIN items THEN items[k] ELSE st[k]]

\* getLoginEvents: result.loginEvents || []
getLoginEvents(st) == IF Has(st, "loginEvents") THEN st["loginEvents"] ELSE <<>>

\* Number.prototype.toString(): the number of characters of an integer in decimal
RECURSIVE DecLen(_)
DecLen(n) == IF n < 0 THEN 1 + DecLen(-n) ELSE IF n < 10 THEN 1 ELSE 1 + DecLen(n \div 10)

\* JSON.stringify of an object or an array, given the length of each member's text:
\* the brackets, the members and the commas between them
RECURSIVE JsonMembersLen(_, _)
JsonMembersLen(S, size) ==
    IF S = {} THEN 0
    ELSE LET x == CHOOSE x \in S : TRUE
         IN  size[x] + 1 + JsonMembersLen(S \ {x}, size)

JsonContainerLen(size) ==
    IF DOMAIN size = {} THEN 2 ELSE 1 + JsonMembersLen(DOMAIN size, size)

\* JSON.stringify of an object, given the length of each key's value: "key":value
JsonObjectLen(size) ==
    JsonContainerLen([k \in DOMAIN size |-> Len(k) + 3 + size[k]])

UUID_LENGTH == 36    \* 'xxxxxxxx-xxxx-4xxx-yxxx-xxxxxxxxxxxx'
\* the fields of LoginEvent and of the metadata: the id is a UUID string
FieldLen(k, v) ==
    IF k = "id" THEN UUID_LENGTH + 2
    ELSE IF k \in {"url", "version"} THEN Len(v) + 2
    ELSE IF k = "usesIndexedDB" THEN (IF v THEN 4 ELSE 5)
    ELSE DecLen(v)

\* JSON.stringify of a record of the schema (a LoginEvent, the metadata)
JsonRecordLen(r) == JsonObjectLen([k \in DOMAIN r |-> FieldLen(k, r[k])])

\* the keys of the storage: any key besides those of the schema holds a string
KeyLen(k, v) ==
    IF k = "loginEvents" THEN JsonContainerLen([n \in DOMAIN v |-> JsonRecordLen(v[n])])
    ELSE IF k = "metadata" THEN JsonRecordLen(v)
    ELSE Len(v) + 2

\* chrome.storage.local.getBytesInUse(null): the size of everything stored, which is
\* JSON.stringify(data).length in the chrome.storage.local the repository's tests run on
getBytesInUse(st) == JsonObjectLen([k \in DOMAIN st |-> KeyLen(k, st[k])])

\* UpdatedEvents that puts the new event in front of the stored ones
UpdatedEvents_Prepend(st, event) == <<event>> \o getLoginEvents(st)

\* storeLoginEvent, from the result of get(['loginEvents','metadata']) to the items of the first set()
UpdatedEvents(st, event) == Append(getLoginEvents(st), event)

UpdatedMetadata(st, event) ==
    LET updatedEvents == UpdatedEvents(st, event)
        hasMeta == Has(st, "metadata")
    IN  [version |-> IF hasMeta THEN st["metadata"].version ELSE "1.0.0",
         eventCount |-> Len(updatedEvents),
         oldestEvent |-> updatedEvents[1].timestamp,
         newestEvent |-> event.timestamp,
         storageBytes |-> IF hasMeta THEN st["metadata"].storageBytes ELSE 0,
         usesIndexedDB |-> IF hasMeta THEN st["metadata"].usesIndexedDB ELSE FALSE]

InFlight(c) == c.pc \in {"get", "set1", "bytes", "set2"}

\* the error of a call that has not rejected
NoError == [isError |-> FALSE, message |-> ""]

\* acceptedAt is the `now` of the listener that made the call
NewCall(event, now, cs) ==
    [pc |-> "get", event |-> event, acceptedAt |-> now,
     overlapped |-> \E j \in DOMAIN cs : InFlight(cs[j]),
     updatedEvents |-> <<>>, updatedMetadata |-> FreshMetadata, error |-> NoError]

QUOTA_MESSAGE == "Storage quota exceeded. Please export and clear old data."
\* what chrome.storage.local rejects with: Error instances, and a plain object of the
\* shape of chrome.runtime.lastError ({message}), which is no instance of Error
StorageErrors == {[isError |-> TRUE, message |-> "QUOTA_BYTES quota exceeded"],
                  [isError |-> TRUE, message |-> "IO error"],
                  [isError |-> FALSE, message |-> "QUOTA_BYTES quota exceeded"]}

\* the catch block of storeLoginEvent: the error the returned promise rejects with
Rethrown(error) ==
    IF error.isError /\ includes(error.message, "QUOTA_BYTES")
    THEN [isError |-> TRUE, message |-> QUOTA_MESSAGE]
    ELSE error

(***************************************************************************)
(* Part A - actions                                                        *)
(***************************************************************************)
ExtInit ==
    /\ clock \in StartClocks
    /\ lastLoginTime = 0
    /\ listening = FALSE
    /\ initPc = "getMetadata"
    /\ installPc = "idle"
    /\ storage \in {EmptyStorage, InitializedStorage}
    /\ calls = <<>>
    /\ nav = NoNav
    /\ cleared = FALSE
    /\ holder = 0

\* Date.now() advances to its next multiple of d past the start (at most MaxTicks of
\* them): by d, or by less after a listener has advanced it by its skew
Tick(d) ==
    /\ \E start \in StartClocks :
          /\ clock' = clock + d - ((clock - start) % d)
          /\ clock' <= start + MaxTicks * d
    /\ UNCHANGED <<lastLoginTime, listening, initPc, installPc, storage, calls, nav>>
    /\ UNCHANGED <<cleared, holder, proxyVars, pureVars, uiVars>>

\* initialize(): await getMetadata() resolves; with metadata present the listener is added
InitGetMetadata ==
    /\ initPc = "getMetadata"
    /\ IF Has(storage, "metadata")
       THEN initPc' = "done" /\ listening' = TRUE
       ELSE initPc' = "initialize" /\ listening' = listening
    /\ UNCHANGED <<clock, lastLoginTime, installPc, storage, calls, nav>>
    /\ UNCHANGED <<cleared, holder, proxyVars, pureVars, uiVars>>

\* initialize(): await storageManager.initialize() resolves, then the listener is added
InitInitialize ==
    /\ initPc = "initialize"
    /\ storage' = StorageSet(storage, InitializedStorage)
    /\ initPc' = "done"
    /\ listening' = TRUE
    /\ UNCHANGED <<clock, lastLoginTime, installPc, calls, nav>>
    /\ holder' = 0
    /\ UNCHANGED <<cleared, proxyVars, pureVars, uiVars>>

\* InitFail whose catch block registers the listener all the same
InitFail_StillListens ==
    /\ initPc \in {"getMetadata", "initialize"}
    /\ initPc' = "failed"
    /\ listening' = TRUE
    /\ UNCHANGED <<clock, lastLoginTime, installPc, storage, calls, nav>>
    /\ UNCHANGED <<cleared, holder, proxyVars, pureVars, uiVars>>

\* initialize(): the awaited storage operation rejects, the catch block logs
InitFail ==
    /\ initPc \in {"getMetadata", "initialize"}
    /\ initPc' = "failed"
    /\ UNCHANGED <<clock, lastLoginTime, listening, installPc, storage, calls, nav>>
    /\ UNCHANGED <<cleared, holder, proxyVars, pureVars, uiVars>>

\* chrome.runtime.onInstalled fires with details.reason
OnInstalled(reason) ==
    /\ installPc = "idle"
    /\ installPc' = IF reason = "install" THEN "initialize" ELSE "updated"
    /\ UNCHANGED <<clock, lastLoginTime, listening, initPc, storage, calls, nav>>
    /\ UNCHANGED <<cleared, holder, proxyVars, pureVars, uiVars>>

\* onInstalled 'install': await storageManager.initialize() resolves
InstalledInitialize ==
    /\ installPc = "initialize"
    /\ storage' = StorageSet(storage, InitializedStorage)
    /\ installPc' = "installed"
    /\ UNCHANGED <<clock, lastLoginTime, listening, initPc, calls, nav>>
    /\ holder' = 0
    /\ UNCHANGED <<cleared, proxyVars, pureVars, uiVars>>

\* onInstalled 'install': storageManager.initialize() rejects, the catch block logs
InstalledFail ==
    /\ installPc = "initialize"
    /\ installPc' = "failed"
    /\ UNCHANGED <<clock, lastLoginTime, listening, initPc, storage, calls, nav>>
    /\ UNCHANGED <<cleared, holder, proxyVars, pureVars, uiVars>>

\* Verdict with the test of the frame left out
Verdict_AnyFrame(frameId, url, now, last) ==
    IF ~isLoginSuccess(url) THEN "url"
    ELSE IF now - last < COOLDOWN_MS THEN "cooldown"
    ELSE "accepted"

\* Verdict with the cooldown test left out
Verdict_NoCooldown(frameId, url, now, last) ==
    IF frameId # 0 THEN "frame"
    ELSE IF ~isLoginSuccess(url) THEN "url"
    ELSE "accepted"

Verdict(frameId, url, now, last) ==
    IF frameId # 0 THEN "frame"
    ELSE IF ~isLoginSuccess(url) THEN "url"
    ELSE IF now - last < COOLDOWN_MS THEN "cooldown"
    ELSE "accepted"

\* HandleNavigationCompleted that restarts the cooldown when it skips a navigation
HandleNavigationCompleted_Extends(frameId, url, tabId, lag, skew) ==
    LET now == clock
        timeStamp == clock - lag
        verdict == Verdict(frameId, url, now, lastLoginTime)
        event == createLoginEvent(Len(calls) + 1, url, timeStamp, clock + skew)
    IN  /\ listening
        /\ nav' = [tabId |-> tabId, at |-> now, verdict |-> verdict]
        /\ IF verdict = "accepted"
           THEN /\ Len(calls) < MaxCalls
                /\ lastLoginTime' = now
                /\ clock' = clock + skew
                /\ calls' = Append(calls, NewCall(event, now, calls))
           ELSE /\ lastLoginTime' = IF verdict = "cooldown" THEN now ELSE lastLoginTime
                /\ UNCHANGED <<clock, calls>>
        /\ UNCHANGED <<listening, initPc, installPc, storage>>
        /\ UNCHANGED <<cleared, holder, proxyVars, pureVars, uiVars>>

\* handleNavigationCompleted(details), up to the call of storeLoginEvent. Date.now() is
\* read twice: `now` for the cooldown test and lastLoginTime, and, skew milliseconds
\* later, inside createLoginEvent for detected_at
HandleNavigationCompleted(frameId, url, tabId, lag, skew) ==
    LET now == clock
        timeStamp == clock - lag
        verdict == Verdict(frameId, url, now, lastLoginTime)
        event == createLoginEvent(Len(calls) + 1, url, timeStamp, clock + skew)
    IN  /\ listening
        /\ nav' = [tabId |-> tabId, at |-> now, verdict |-> verdict]
        /\ IF verdict = "accepted"
           THEN /\ Len(calls) < MaxCalls
                /\ lastLoginTime' = now
                /\ clock' = clock + skew
                /\ calls' = Append(calls, NewCall(event, now, calls))
           ELSE UNCHANGED <<clock, lastLoginTime, calls>>
        /\ UNCHANGED <<listening, initPc, installPc, storage>>
        /\ UNCHANGED <<cleared, holder, proxyVars, pureVars, uiVars>>

\* storeLoginEvent: await this.get(['loginEvents','metadata']) resolves
StoreGet(i) ==
    /\ calls[i].pc = "get"
    /\ calls' = [calls EXCEPT ![i].pc = "set1",
                              ![i].updatedEvents = UpdatedEvents(storage, calls[i].event),
                              ![i].updatedMetadata = UpdatedMetadata(storage, calls[i].event)]
    /\ UNCHANGED <<clock, lastLoginTime, listening, initPc, installPc, storage, nav>>
    /\ UNCHANGED <<cleared, holder, proxyVars, pureVars, uiVars>>

\* storeLoginEvent: await this.set({loginEvents, metadata}) resolves
StoreSet1(i) ==
    /\ calls[i].pc = "set1"
    /\ storage' = StorageSet(storage, [loginEvents |-> calls[i].updatedEvents,
                                       metadata |-> calls[i].updatedMetadata])
    /\ calls' = [calls EXCEPT ![i].pc = "bytes"]
    /\ UNCHANGED <<clock, lastLoginTime, listening, initPc, installPc, nav>>
    /\ holder' = i
    /\ UNCHANGED <<cleared, proxyVars, pureVars, uiVars>>

\* storeLoginEvent: await this.getBytesInUse() resolves and updatedMetadata.storageBytes is
\* assigned; while the storage holds this very object, the stored metadata changes with it
StoreBytes(i) ==
    /\ calls[i].pc = "bytes"
    /\ calls' = [calls EXCEPT ![i].pc = "set2",
                              ![i].updatedMetadata.storageBytes = getBytesInUse(storage)]
    /\ storage' = IF holder = i
                  THEN [storage EXCEPT !["metadata"].storageBytes = getBytesInUse(storage)]
                  ELSE storage
    /\ UNCHANGED <<clock, lastLoginTime, listening, initPc, installPc, nav>>
    /\ UNCHANGED <<cleared, holder, proxyVars, pureVars, uiVars>>

\* storeLoginEvent: await this.set({metadata}) resolves, the promise is fulfilled
StoreSet2(i) ==
    /\ calls[i].pc = "set2"
    /\ storage' = StorageSet(storage, [metadata |-> calls[i].updatedMetadata])
    /\ calls' = [calls EXCEPT ![i].pc = "done"]
    /\ UNCHANGED <<clock, lastLoginTime, listening, initPc, installPc, nav>>
    /\ holder' = i
    /\ UNCHANGED <<cleared, proxyVars, pureVars, uiVars>>

\* StoreReject whose rejection escapes the detector and takes the listener down
StoreReject_Escapes(i, error) ==
    /\ InFlight(calls[i])
    /\ Cardinality({j \in DOMAIN calls : calls[j].pc = "rejected"}) < MaxFaults
    /\ calls' = [calls EXCEPT ![i].pc = "rejected", ![i].error = Rethrown(error)]
    /\ listening' = FALSE
    /\ UNCHANGED <<clock, lastLoginTime, initPc, installPc, storage, nav>>
    /\ UNCHANGED <<cleared, holder, proxyVars, pureVars, uiVars>>

\* storeLoginEvent: the awaited storage operation rejects (a rejected set writes nothing);
\* the catch block rethrows and the detector's .catch logs; nothing is retried
StoreReject(i, error) ==
    /\ InFlight(calls[i])
    /\ Cardinality({j \in DOMAIN calls : calls[j].pc = "rejected"}) < MaxFaults
    /\ calls' = [calls EXCEPT ![i].pc = "rejected", ![i].error = Rethrown(error)]
    /\ UNCHANGED <<clock, lastLoginTime, listening, initPc, installPc, storage, nav>>
    /\ UNCHANGED <<cleared, holder, proxyVars, pureVars, uiVars>>

\* StorageManager.clear(): await chrome.storage.local.clear() resolves
clear ==
    /\ storage' = EmptyStorage
    /\ cleared' = TRUE
    /\ holder' = 0
    /\ UNCHANGED <<clock, lastLoginTime, listening, initPc, installPc, calls, nav>>
    /\ UNCHANGED <<proxyVars, pureVars, uiVars>>

\* the whole extension, with the main-frame navigations of one tab
ExtNext ==
    \/ \E d \in ClockSteps : Tick(d)
    \/ InitGetMetadata
    \/ InitInitialize
    \/ InitFail
    \/ \E reason \in {"install", "update"} : OnInstalled(reason)
    \/ InstalledInitialize
    \/ InstalledFail
    \/ \E url \in Urls, lag \in Lags, skew \in Skews :
          HandleNavigationCompleted(0, url, 1, lag, skew)
    \/ \E i \in DOMAIN calls : StoreGet(i)
    \/ \E i \in DOMAIN calls : StoreSet1(i)
    \/ \E i \in DOMAIN calls : StoreBytes(i)
    \/ \E i \in DOMAIN calls : StoreSet2(i)
    \/ \E i \in DOMAIN calls, error \in StorageErrors : StoreReject(i, error)
    \/ clear

(***************************************************************************)
(* Part B - the proxy session correlator (research.md, Detection Strategy) *)
(***************************************************************************)
WINDOW == 60                       \* `if elapsed < 60`
IDP_HOST == "login.microsoftonline.com"

Keys == {"c1", "c2"}               \* flow.client_conn.id
Hosts == {"login.microsoftonline.com", "app.example.com"}
Requests == {[path |-> "/callback", url |-> "http://localhost:8080/callback?code=abc"],
             [path |-> "/auth", url |-> "http://localhost:8080/auth?token=abc"],
             [path |-> "/callback", url |-> "http://localhost:8080/callback?error=denied"],
             [path |-> "/index", url |-> "http://localhost:8080/index?code=abc"]}
Threads == {1, 2}

\* the two `if` filters of request(flow)
IsCallback(req) ==
    /\ includes(req.path, "/callback") \/ includes(req.path, "/auth")
    /\ includes(req.url, "code=") \/ includes(req.url, "token=")

\* the dict `sessions` as its set of items
DictHas(d, k) == \E s \in d : s.id = k
DictGet(d, k) == (CHOOSE s \in d : s.id = k).t
DictDel(d, k) == {s \in d : s.id # k}
\* DictSet that adds an item without replacing the one of the same key
DictSet_Stack(d, k, v) == d \cup {[id |-> k, t |-> v]}

DictSet(d, k, v) == DictDel(d, k) \cup {[id |-> k, t |-> v]}

NoObs == [kind |-> "none", key |-> "", outcome |-> "none"]
IdleThread == [pc |-> "idle", key |-> "", stamp |-> 0]

ProxyInit ==
    /\ time = 0
    /\ sessions = {}
    /\ recorded = [k \in Keys |-> 0]
    /\ connects = [k \in Keys |-> 0]
    /\ obs = NoObs
    /\ th = [t \in Threads |-> IdleThread]

\* time.time() advances
ProxyTick(d) ==
    /\ time + d <= MaxProxyTicks * d
    /\ time' = time + d
    /\ UNCHANGED <<sessions, recorded, connects, obs, th>>
    /\ UNCHANGED <<extVars, pureVars, uiVars>>

\* http_connect(flow), run to completion without interruption
HttpConnect(k, host) ==
    /\ IF includes(host, IDP_HOST)
       THEN /\ connects[k] < MaxConnects
            /\ sessions' = DictSet(sessions, k, time)
            /\ connects' = [connects EXCEPT ![k] = @ + 1]
            /\ obs' = [kind |-> "connect", key |-> k, outcome |-> "tracked"]
       ELSE /\ UNCHANGED <<sessions, connects>>
            /\ obs' = [kind |-> "connect", key |-> k, outcome |-> "untracked"]
    /\ UNCHANGED <<time, recorded, th>>
    /\ UNCHANGED <<extVars, pureVars, uiVars>>

\* RequestOutcome without the test of the elapsed time
RequestOutcome_NoExpiry(d, k, req, now) ==
    IF ~IsCallback(req) THEN "notcallback"
    ELSE IF ~DictHas(d, k) THEN "nosession"
    ELSE "recorded"

\* what request(flow) does with the flow, the dict and the clock it reads
RequestOutcome(d, k, req, now) ==
    IF ~IsCallback(req) THEN "notcallback"
    ELSE IF ~DictHas(d, k) THEN "nosession"
    ELSE IF now - DictGet(d, k) < WINDOW THEN "recorded"
    ELSE "expired"

\* request(flow), run to completion without interruption
Request(k, req) ==
    LET outcome == RequestOutcome(sessions, k, req, time)
    IN  /\ \A t \in Threads : th[t].pc = "idle"
        /\ obs' = [kind |-> "request", key |-> k, outcome |-> outcome]
        /\ IF outcome = "recorded"
           THEN /\ recorded[k] < MaxRecorded
                /\ recorded' = [recorded EXCEPT ![k] = @ + 1]
                /\ sessions' = DictDel(sessions, k)
           ELSE UNCHANGED <<recorded, sessions>>
        /\ UNCHANGED <<time, connects, th>>
        /\ UNCHANGED <<extVars, pureVars, uiVars>>

ProxyNext ==
    \/ \E d \in TimeSteps : ProxyTick(d)
    \/ \E k \in Keys, host \in Hosts : HttpConnect(k, host)
    \/ \E k \in Keys, req \in Requests : Request(k, req)

(***************************************************************************)
(* The hooks on one thread per connection, with no lock around them in the *)
(* source.  http_connect: the read of time.time() and the store into the   *)
(* dict are separate steps.  request: the membership test, the read of the *)
(* clock, the read of the timestamp, record_login_event() and the del are  *)
(* separate steps.                                                         *)
(***************************************************************************)
\* http_connect: the test of the host, and time.time() on the right of the assignment
ThConnect(t, k, host) ==
    /\ th[t].pc = "idle"
    /\ IF includes(host, IDP_HOST)
       THEN /\ connects[k] < MaxConnects
            /\ connects' = [connects EXCEPT ![k] = @ + 1]
            /\ th' = [th EXCEPT ![t] = [pc |-> "store", key |-> k, stamp |-> time]]
       ELSE UNCHANGED <<connects, th>>
    /\ UNCHANGED <<time, sessions, recorded, obs>>
    /\ UNCHANGED <<extVars, pureVars, uiVars>>

\* http_connect: `sessions[session_id] = ..` stores the time that was read
ThStore(t) ==
    /\ th[t].pc = "store"
    /\ sessions' = DictSet(sessions, th[t].key, th[t].stamp)
    /\ th' = [th EXCEPT ![t] = IdleThread]
    /\ UNCHANGED <<time, recorded, connects, obs>>
    /\ UNCHANGED <<extVars, pureVars, uiVars>>

\* the two filters and `if session_id in sessions`
ThStart(t, k, req) ==
    /\ th[t].pc = "idle"
    /\ th' = IF IsCallback(req) /\ DictHas(sessions, k)
             THEN [th EXCEPT ![t] = [pc |-> "clock", key |-> k, stamp |-> 0]]
             ELSE th
    /\ UNCHANGED <<time, sessions, recorded, connects, obs>>
    /\ UNCHANGED <<extVars, pureVars, uiVars>>

\* time.time() on the right of `elapsed = time.time() - sessions[session_id]`
ThClock(t) ==
    /\ th[t].pc = "clock"
    /\ th' = [th EXCEPT ![t].pc = "elapsed", ![t].stamp = time]
    /\ UNCHANGED <<time, sessions, recorded, connects, obs>>
    /\ UNCHANGED <<extVars, pureVars, uiVars>>

\* `.. - sessions[session_id]` (KeyError when the key is gone) and `if elapsed < 60`
ThElapsed(t) ==
    LET k == th[t].key
    IN  /\ th[t].pc = "elapsed"
        /\ th' = IF DictHas(sessions, k) /\ th[t].stamp - DictGet(sessions, k) < WINDOW
                 THEN [th EXCEPT ![t].pc = "record", ![t].stamp = 0]
                 ELSE [th EXCEPT ![t] = IdleThread]
        /\ UNCHANGED <<time, sessions, recorded, connects, obs>>
        /\ UNCHANGED <<extVars, pureVars, uiVars>>

\* record_login_event()
ThRecord(t) ==
    LET k == th[t].key
    IN  /\ th[t].pc = "record"
        /\ recorded[k] < MaxRecorded
        /\ recorded' = [recorded EXCEPT ![k] = @ + 1]
        /\ th' = [th EXCEPT ![t].pc = "del"]
        /\ UNCHANGED <<time, sessions, connects, obs>>
        /\ UNCHANGED <<extVars, pureVars, uiVars>>

\* `del sessions[session_id]` (KeyError when the key is gone: nothing is removed)
ThDel(t) ==
    LET k == th[t].key
    IN  /\ th[t].pc = "del"
        /\ sessions' = DictDel(sessions, k)
        /\ th' = [th EXCEPT ![t] = IdleThread]
        /\ UNCHANGED <<time, recorded, connects, obs>>
        /\ UNCHANGED <<extVars, pureVars, uiVars>>

ThreadsNext ==
    \/ \E d \in TimeSteps : ProxyTick(d)
    \/ \E t \in Threads, k \in Keys, host \in Hosts : ThConnect(t, k, host)
    \/ \E t \in Threads : ThStore(t)
    \/ \E t \in Threads, k \in Keys, req \in Requests : ThStart(t, k, req)
    \/ \E t \in Threads : ThClock(t)
    \/ \E t \in Threads : ThElapsed(t)
    \/ \E t \in Threads : ThRecord(t)
    \/ \E t \in Threads : ThDel(t)

(***************************************************************************)
(* Part C - Date (ECMAScript Date in the local time zone)                  *)
(*                                                                         *)
(* A time value is [day, ms]: the days since 1970-01-01 UTC and the        *)
(* milliseconds since midnight UTC; the order of instants is the order of  *)
(* (day, ms).  The local time of a time value is a [day, ms] too, read on  *)
(* the calendar and the clock of the host's zone tz.                       *)
(***************************************************************************)
\* MakeDay(year, month, date) for month in 1..12 and any integer date: the day number
DaysFromCivil(y, m, d) ==
    LET yy  == IF m <= 2 THEN y - 1 ELSE y
        era == yy \div 400
        yoe == yy - era * 400
        mp  == IF m > 2 THEN m - 3 ELSE m + 9
        doy == (153 * mp + 2) \div 5 + d - 1
        doe == yoe * 365 + yoe \div 4 - yoe \div 100 + doy
    IN  era * 146097 + doe - 719468

\* YearFromTime / MonthFromTime / DateFromTime of a day number (month in 1..12)
CivilFromDays(n) ==
    LET z   == n + 719468
        era == z \div 146097
        doe == z - era * 146097
        yoe == (doe - doe \div 1460 + doe \div 36524 - doe \div 146096) \div 365
        doy == doe - (365 * yoe + yoe \div 4 - yoe \div 100)
        mp  == (5 * doy + 2) \div 153
        d   == doy - (153 * mp + 2) \div 5 + 1
        m   == IF mp < 10 THEN mp + 3 ELSE mp - 9
    IN  [year |-> IF m <= 2 THEN yoe + era * 400 + 1 ELSE yoe + era * 400,
         month |-> m, date |-> d]

MsPerHour == 60 * 60 * 1000
MsPerDay == 24 * MsPerHour

\* a time value and a number of milliseconds (less than a day, either way) added
PlusMs(t, ms) ==
    IF t.ms + ms < 0 THEN [day |-> t.day - 1, ms |-> t.ms + ms + MsPerDay]
    ELSE IF t.ms + ms >= MsPerDay THEN [day |-> t.day + 1, ms |-> t.ms + ms - MsPerDay]
    ELSE [day |-> t.day, ms |-> t.ms + ms]

\* a >= b on Dates
DateGE(a, b) == a.day > b.day \/ (a.day = b.day /\ a.ms >= b.ms)

\* the zones a host may be set to: one that never changes its offset, and one with
\* daylight saving time by the rule of the United States since 2007
ZoneUTC == [name |-> "UTC", standard |-> 0, daylight |-> FALSE]
Zones == {ZoneUTC,
          [name |-> "America/New_York", standard |-> -5 * MsPerHour, daylight |-> TRUE]}

\* daylight saving time is in force in the zone at a time value: from 02:00 standard
\* time of the second Sunday of March up to 02:00 daylight time of the first Sunday of
\* November
InDaylight(t, zone) ==
    LET year == CivilFromDays(t.day).year
        march8 == DaysFromCivil(year, 3, 8)
        november1 == DaysFromCivil(year, 11, 1)
        begin == [day |-> march8 + ((7 - ((march8 + 4) % 7)) % 7), ms |-> 2 * MsPerHour]
        end == [day |-> november1 + ((7 - ((november1 + 4) % 7)) % 7), ms |-> 2 * MsPerHour]
    IN  /\ zone.daylight
        /\ DateGE(t, PlusMs(begin, -zone.standard))
        /\ ~DateGE(t, PlusMs(end, -(zone.standard + MsPerHour)))

\* LocalTime(t): the local time of a time value
LocalTime(t) ==
    PlusMs(t, IF InDaylight(t, tz) THEN tz.standard + MsPerHour ELSE tz.standard)

\* UTC(t): the time value of a local time; a local time the clocks skip or show twice
\* is read with the offset in force before the change
UTC(local) ==
    IF InDaylight(PlusMs(local, -(tz.standard + MsPerHour)), tz)
    THEN PlusMs(local, -(tz.standard + MsPerHour))
    ELSE PlusMs(local, -tz.standard)

\* new Date(value): a copy
NewDate(value) == [day |-> value.day, ms |-> value.ms]

getDay(date) == (LocalTime(date).day + 4) % 7   \* 0 = Sunday; 1970-01-01 was a Thursday
getDate(date) == CivilFromDays(LocalTime(date).day).date
getMonth(date) == CivilFromDays(LocalTime(date).day).month - 1      \* 0 = January
getFullYear(date) == CivilFromDays(LocalTime(date).day).year

\* setHours(hours, min, sec, ms): the time of day on the local day of the Date
setHours(date, h, mi, sec, ms) ==
    UTC([day |-> LocalTime(date).day, ms |-> ((h * 60 + mi) * 60 + sec) * 1000 + ms])

\* setDate(d): day d of the Date's local month, any integer d (0 is the last day of the
\* month before), at the local time of day of the Date
setDate(date, d) ==
    UTC([day |-> DaysFromCivil(getFullYear(date), getMonth(date) + 1, 1) + d - 1,
         ms |-> LocalTime(date).ms])

\* setMonth(month, d): month counted from 0 and carried into the year
setMonth(date, month, d) ==
    UTC([day |-> DaysFromCivil(getFullYear(date) + month \div 12, (month % 12) + 1, 1) + d - 1,
         ms |-> LocalTime(date).ms])

(***************************************************************************)
(* Part C - date-utils.ts                                                  *)
(***************************************************************************)
startOfDay(date) == setHours(NewDate(date), 0, 0, 0, 0)

endOfDay(date) == setHours(NewDate(date), 23, 59, 59, 999)

startOfWeek(date) ==
    LET result == NewDate(date)
        day == getDay(result)
        diff == IF day = 0 THEN 6 ELSE day - 1
    IN  setHours(setDate(result, getDate(result) - diff), 0, 0, 0, 0)

endOfWeek(date) ==
    LET result == NewDate(date)
        day == getDay(result)
        diff == IF day = 0 THEN 0 ELSE 7 - day
    IN  setHours(setDate(result, getDate(result) + diff), 23, 59, 59, 999)

startOfMonth(date) == setHours(setDate(NewDate(date), 1), 0, 0, 0, 0)

endOfMonth(date) ==
    LET result == NewDate(date)
    IN  setHours(setMonth(result, getMonth(result) + 1, 0), 23, 59, 59, 999)

(***************************************************************************)
(* Part C - statistics.ts                                                  *)
(***************************************************************************)
\* events.filter(e => new Date(e.timestamp) >= start).length
CountFrom(events, start) ==
    Cardinality({i \in DOMAIN events : DateGE(NewDate(events[i].timestamp), start)})

computeStatistics(events, now) ==
    LET todayStart == startOfDay(now)
        weekStart == startOfWeek(now)
        monthStart == startOfMonth(now)
    IN  [today |-> CountFrom(events, todayStart),
         thisWeek |-> CountFrom(events, weekStart),
         thisMonth |-> CountFrom(events, monthStart),
         total |-> Len(events),
         periodStart |-> todayStart,
         periodEnd |-> endOfDay(now)]

(***************************************************************************)
(* Part C - the chart's colours (dashboard/static/graph.js)                *)
(***************************************************************************)
lightBlue == [r |-> 173, g |-> 216, b |-> 230]
darkBlue == [r |-> 0, g |-> 61, b |-> 107]
mediumBlue == [r |-> 0, g |-> 120, b |-> 212]

\* MinCount that takes the count of the first data point
MinCount_First(dataPoints) == dataPoints[1].count

\* Math.min(...counts), Math.max(...counts) of a non-empty list
MinCount(dataPoints) ==
    CHOOSE c \in {dataPoints[i].count : i \in DOMAIN dataPoints} :
        \A i \in DOMAIN dataPoints : c <= dataPoints[i].count
MaxCount(dataPoints) ==
    CHOOSE c \in {dataPoints[i].count : i \in DOMAIN dataPoints} :
        \A i \in DOMAIN dataPoints : c >= dataPoints[i].count

\* Channel that starts from the dark colour
Channel_FromDark(light, dark, count, min, max) ==
    (2 * (dark * (max - min) + (light - dark) * (count - min)) + (max - min))
        \div (2 * (max - min))

(***************************************************************************)
(* The arithmetic of ECMAScript Numbers (IEEE 754 binary64, round to       *)
(* nearest, ties to even) on the values the interpolation meets.  A        *)
(* positive Number is [m, e]: the SIGNIFICAND_BITS bits m of its           *)
(* significand, the first of them 1, and the exponent e; its value is      *)
(* 0.m[1]m[2].. (binary) * 2^e.                                            *)
(***************************************************************************)
SIGNIFICAND_BITS == 53

\* the binary digits of a natural number, the most significant first (none for 0)
RECURSIVE NatBits(_)
NatBits(n) == IF n = 0 THEN <<>> ELSE Append(NatBits(n \div 2), n % 2)

\* the natural number with these binary digits
RECURSIVE BitsNat(_)
BitsNat(bits) ==
    IF bits = <<>> THEN 0
    ELSE 2 * BitsNat(SubSeq(bits, 1, Len(bits) - 1)) + bits[Len(bits)]

Zeros(n) == [i \in 1..n |-> 0]

\* the binary digits of n, in w places
PadBits(n, w) == Zeros(w - Len(NatBits(n))) \o NatBits(n)

\* digits without the zeros they start with
Normalize(bits) ==
    LET ones == {i \in DOMAIN bits : bits[i] = 1}
    IN  IF ones = {} THEN <<>>
        ELSE SubSeq(bits, CHOOSE i \in ones : \A o \in ones : i <= o, Len(bits))

\* the Number nearest to 0.bits * 2^e, for digits that start with a 1: the digits after
\* the significand are dropped, and one unit in the last place is added when they are
\* above a half of it, or exactly a half and the last digit kept is odd
RoundBits(bits, e) ==
    IF Len(bits) <= SIGNIFICAND_BITS
    THEN [m |-> bits \o Zeros(SIGNIFICAND_BITS - Len(bits)), e |-> e]
    ELSE LET head == SubSeq(bits, 1, SIGNIFICAND_BITS)
             guard == bits[SIGNIFICAND_BITS + 1]
             sticky == \E i \in (SIGNIFICAND_BITS + 2)..Len(bits) : bits[i] = 1
             up == guard = 1 /\ (sticky \/ head[SIGNIFICAND_BITS] = 1)
             zeros == {i \in DOMAIN head : head[i] = 0}
         IN  IF ~up THEN [m |-> head, e |-> e]
             ELSE IF zeros = {}
             THEN [m |-> <<1>> \o Zeros(SIGNIFICAND_BITS - 1), e |-> e + 1]
             ELSE LET j == CHOOSE i \in zeros : \A z \in zeros : z <= i
                  IN  [m |-> [i \in DOMAIN head |->
                                IF i < j THEN head[i] ELSE IF i = j THEN 1 ELSE 0],
                       e |-> e]

\* 2^n modulo d
RECURSIVE Pow2Mod(_, _)
Pow2Mod(n, d) ==
    IF n = 0 THEN 1 % d
    ELSE IF n % 2 = 0 THEN (Pow2Mod(n \div 2, d) * Pow2Mod(n \div 2, d)) % d
    ELSE (2 * Pow2Mod(n - 1, d)) % d

\* the first n binary digits of rem / d after the point (rem < d), and one more digit
\* that is 1 when digits other than 0 follow them
DivBits(rem, d, n) ==
    [i \in 1..(n + 1) |->
        IF i <= n
        THEN IF 2 * ((rem * Pow2Mod(i - 1, d)) % d) >= d THEN 1 ELSE 0
        ELSE IF (rem * Pow2Mod(n, d)) % d # 0 THEN 1 ELSE 0]

\* how many zeros the binary digits of k / d start with, for 0 < k < d
RECURSIVE LeadingZeros(_, _)
LeadingZeros(k, d) == IF 2 * k >= d THEN 0 ELSE 1 + LeadingZeros(2 * k, d)

\* `(count - min) / (max - min)` for min < count < max: the quotient of two whole Numbers
Normalized(count, min, max) ==
    LET k == count - min
        d == max - min
        z == LeadingZeros(k, d)
    IN  RoundBits(DivBits(k * 2^z, d, SIGNIFICAND_BITS + 1), -z)

\* the binary digits of (the number with digits m) * c + carry, for c > 0, worked out
\* sixteen digits of m at a time
RECURSIVE MulBits(_, _, _)
MulBits(m, c, carry) ==
    IF m = <<>> THEN NatBits(carry)
    ELSE LET w == IF Len(m) < 16 THEN Len(m) ELSE 16
             t == BitsNat(SubSeq(m, Len(m) - w + 1, Len(m))) * c + carry
         IN  MulBits(SubSeq(m, 1, Len(m) - w), c, t \div 2^w) \o PadBits(t % 2^w, w)

\* `c * normalized` for a whole c > 0
Times(c, x) ==
    LET bits == MulBits(x.m, c, 0)
    IN  RoundBits(bits, x.e + Len(bits) - Len(x.m))

\* the binary digits of 1 - 0.frac, for digits that are not all 0: those up to the last
\* 1 are inverted, the last 1 and the zeros after it stay
OneMinus(frac) ==
    LET last == CHOOSE i \in DOMAIN frac :
                    frac[i] = 1 /\ \A j \in DOMAIN frac : frac[j] = 1 => j <= i
    IN  [i \in DOMAIN frac |-> IF i < last THEN 1 - frac[i] ELSE frac[i]]

\* `light + (-x)` for a whole light and a Number 0 < x <= light: the difference, which
\* is exact when x is whole, rounded; zero has no digits
Minus(light, x) ==
    LET whole == BitsNat(SubSeq(x.m, 1, x.e))
        frac == IF x.e < 0 THEN Zeros(-x.e) \o x.m ELSE SubSeq(x.m, x.e + 1, Len(x.m))
        bits == IF \A i \in DOMAIN frac : frac[i] = 0
                THEN NatBits(light - whole)
                ELSE NatBits(light - whole - 1) \o OneMinus(frac)
        diff == Normalize(bits)
        places == IF \A i \in DOMAIN frac : frac[i] = 0 THEN 0 ELSE Len(frac)
    IN  IF diff = <<>> THEN [m |-> <<>>, e |-> 0]
        ELSE RoundBits(diff, Len(diff) - places)

\* Math.round of a Number that is not negative: the whole part, and one more when the
\* fraction is a half or above
MathRound(x) ==
    IF x.m = <<>> \/ x.e < 0 THEN 0
    ELSE BitsNat(SubSeq(x.m, 1, x.e)) + x.m[x.e + 1]

\* Math.round(light + (dark - light) * normalized), normalized = (count - min) / (max - min),
\* for dark < light and min <= count <= max, min < max; a normalized of 0 and of 1 give
\* light and dark exactly
Channel(light, dark, count, min, max) ==
    IF count = min THEN light
    ELSE IF count = max THEN dark
    ELSE MathRound(Minus(light, Times(light - dark, Normalized(count, min, max))))

\* the colour of every bar before it is written as a string
GradientChannels(dataPoints) ==
    IF Len(dataPoints) = 0 THEN <<>>
    ELSE LET min == MinCount(dataPoints)
             max == MaxCount(dataPoints)
         IN  IF min = max THEN [i \in DOMAIN dataPoints |-> mediumBlue]
             ELSE [i \in DOMAIN dataPoints |->
                     [r |-> Channel(lightBlue.r, darkBlue.r, dataPoints[i].count, min, max),
                      g |-> Channel(lightBlue.g, darkBlue.g, dataPoints[i].count, min, max),
                      b |-> Channel(lightBlue.b, darkBlue.b, dataPoints[i].count, min, max)]]

\* `rgb(${r}, ${g}, ${b})`
RgbString(c) == "rgb(" \o ToString(c.r) \o ", " \o ToString(c.g) \o ", " \o ToString(c.b) \o ")"

calculateGradientColors(dataPoints) ==
    LET channels == GradientChannels(dataPoints)
    IN  [i \in DOMAIN channels |-> RgbString(channels[i])]

(***************************************************************************)
(* Part C - the dashboard server's aggregation (src/storage/repository.py) *)
(*                                                                         *)
(* A datetime is a whole number of hours since 1970-01-01T00:00Z; a        *)
(* timedelta is a number of hours.                                         *)
(***************************************************************************)
\* timedelta.days: the whole days of a timedelta, rounded down
TimedeltaDays(delta) == delta \div 24

\* determine_aggregation_level as quoted from repository.py:125-148
determine_aggregation_level(start_date, end_date) ==
    LET days_diff == TimedeltaDays(end_date - start_date)
    IN  IF days_diff <= 7 THEN "hour"
        ELSE IF days_diff <= 90 THEN "day"
        ELSE "week"

\* the bucketed series, from the specification of the aggregation engine: buckets are
\* aligned to the hour, the UTC day or the ISO week (Monday 1970-01-05 is hour 96),
\* cover the range without gaps, and count the events of the range they hold
BucketWidth(level) == IF level = "hour" THEN 1 ELSE IF level = "day" THEN 24 ELSE 7 * 24

BucketStart(t, level) ==
    IF level = "hour" THEN t
    ELSE IF level = "day" THEN (t \div 24) * 24
    ELSE ((t - 4 * 24) \div (7 * 24)) * (7 * 24) + 4 * 24

CountInRange(events, rangeStart, rangeEnd) ==
    Cardinality({i \in DOMAIN events : rangeStart <= events[i] /\ events[i] < rangeEnd})

\* BucketCount that takes the end of the bucket in
BucketCount_Closed(events, rangeStart, rangeEnd, bucketStart, width) ==
    Cardinality({i \in DOMAIN events :
                    /\ rangeStart <= events[i] /\ events[i] < rangeEnd
                    /\ bucketStart <= events[i] /\ events[i] <= bucketStart + width})

BucketCount(events, rangeStart, rangeEnd, bucketStart, width) ==
    Cardinality({i \in DOMAIN events :
                    /\ rangeStart <= events[i] /\ events[i] < rangeEnd
                    /\ bucketStart <= events[i] /\ events[i] < bucketStart + width})

RECURSIVE SumCounts(_)
SumCounts(points) ==
    IF points = <<>> THEN 0 ELSE points[1].count + SumCounts(Tail(points))

GetSeries(events, rangeStart, rangeEnd) ==
    LET level == determine_aggregation_level(rangeStart, rangeEnd)
        width == BucketWidth(level)
        first == BucketStart(rangeStart, level)
        n == IF rangeEnd > rangeStart THEN (rangeEnd - 1 - first) \div width + 1 ELSE 0
        dataPoints == [i \in 1..n |->
                         [bucket_start |-> first + (i - 1) * width,
                          count |-> BucketCount(events, rangeStart, rangeEnd,
                                                first + (i - 1) * width, width)]]
    IN  [dataPoints |-> dataPoints,
         aggregation_level |-> level,
         total_events |-> SumCounts(dataPoints),
         range_start |-> rangeStart,
         range_end |-> rangeEnd]

(***************************************************************************)
(* Part C - arguments and actions                                          *)
(***************************************************************************)
\* new Date(Date.UTC(year, month - 1, date, hours, minutes, seconds, ms))
At(y, m, d, h, mi, sec, ms) ==
    [day |-> DaysFromCivil(y, m, d), ms |-> ((h * 60 + mi) * 60 + sec) * 1000 + ms]

\* the days 2023-12-25 .. 2025-03-02: a leap and a common February, two turns of the
\* year, and the days of 2024 on which New York changes its clocks (10 March,
\* 3 November)
Days == DaysFromCivil(2023, 12, 25) .. DaysFromCivil(2025, 3, 2)
\* times of the day (UTC): the first, the second and the last millisecond of the day in
\* UTC, and in New York in winter (05:00) and in summer (04:00); an afternoon; and
\* 05:30, 06:30 and 07:30, which are the first 01:30, the second 01:30 and 02:30 in
\* New York on 3 November, and 00:30, 01:30 and 03:30 there on 10 March
TimesOfDay == {At(1970, 1, 1, 0, 0, 0, 0).ms,
               At(1970, 1, 1, 0, 0, 0, 1).ms,
               At(1970, 1, 1, 3, 59, 59, 999).ms,
               At(1970, 1, 1, 4, 0, 0, 0).ms,
               At(1970, 1, 1, 4, 59, 59, 999).ms,
               At(1970, 1, 1, 5, 0, 0, 0).ms,
               At(1970, 1, 1, 5, 30, 0, 0).ms,
               At(1970, 1, 1, 6, 30, 0, 0).ms,
               At(1970, 1, 1, 7, 30, 0, 0).ms,
               At(1970, 1, 1, 15, 30, 45, 123).ms,
               At(1970, 1, 1, 23, 59, 59, 999).ms}
Instants == {[day |-> d, ms |-> t] : d \in Days, t \in TimesOfDay}

\* the current time of computeStatistics (UTC): Friday 2025-11-21 15:30, Monday
\* 2025-11-17 00:00:01, and Saturday 2025-11-01 09:00, whose week began on Monday
\* 2025-10-27
Nows == {At(2025, 11, 21, 15, 30, 0, 0),
         At(2025, 11, 17, 0, 0, 1, 0),
         At(2025, 11, 1, 9, 0, 0, 0)}

\* timestamps of stored events (UTC), around the boundaries of the days, weeks and
\* months of Nows
Timestamps == {At(2025, 10, 27, 12, 0, 0, 0),
               At(2025, 10, 31, 23, 59, 59, 999),
               At(2025, 11, 1, 0, 0, 0, 0),
               At(2025, 11, 16, 23, 59, 59, 999),
               At(2025, 11, 17, 0, 0, 0, 0),
               At(2025, 11, 20, 23, 59, 0, 0),
               At(2025, 11, 21, 0, 0, 0, 0),
               At(2025, 11, 21, 10, 0, 0, 0),
               At(2025, 11, 22, 0, 0, 0, 0),
               At(2025, 11, 24, 0, 0, 0, 0),
               At(2025, 12, 1, 0, 0, 0, 0)}

EventLists == UNION {[1..n -> {[timestamp |-> t] : t \in Timestamps}] : n \in 0..MaxEvents}

TestUrls == {"https://login.microsoftonline.com/common/oauth2/v2.0/authorize?code=ABC123",
             "https://login.microsoftonline.com/12345-tenant-id/oauth2/v2.0/authorize?code=XYZ",
             "https://login.microsoftonline.com/common/oauth2/v2.0/token",
             "https://login.microsoftonline.com/common/oauth2/token",
             "https://login.microsoftonline.com/common/oauth2/v2.0/authorize?code=ABC#fragment",
             "https://login.microsoftonline.com/common/login",
             "https://login.microsoftonline.com/common/login?code=ABC",
             "https://login.microsoftonline.com/common/oauth2/somethingelse",
             "https://login.microsoftonline.com/common/oauth2/v2.0/authorize?client_id=1",
             "http://login.microsoftonline.com/oauth2/authorize?code=ABC",
             "https://outlook.office.com",
             "https://login.microsoftonline.com.example.org/common/oauth2/token",
             "https://example.org/?next=https://login.microsoftonline.com/common/oauth2/token",
             "https://login.live.com/oauth2/v2.0/token?code=ABC",
             "not a url",
             ""}

\* ranges of the dashboard: two starts (one off the hour grid of days and weeks) and
\* spans in hours on both sides of the 7-day and the 90-day thresholds
RangeStarts == {20 * 24, 20 * 24 + 13}
Spans == {0, 5 * 24, 7 * 24, 7 * 24 + 12, 8 * 24 - 1, 8 * 24, 90 * 24, 90 * 24 + 12,
          91 * 24 - 1, 91 * 24, 120 * 24}
SeriesSpans == {5, 2 * 24, 8 * 24 + 3, 100 * 24}
\* event times relative to the start of the range: before it, on it, on bucket
\* boundaries, and (with the span added) at and after its end
Offsets == {-1, 0, 1, 24, 7 * 24}
EndOffsets == {-1, 0}
SeriesEventLists(rangeStart, rangeEnd) ==
    UNION {[1..n -> {rangeStart + o : o \in Offsets} \cup {rangeEnd + o : o \in EndOffsets}]
              : n \in 0..MaxEvents}

\* no function applied yet
NoFx == [op |-> "none"]

\* the six functions of date-utils.ts applied to one Date
ApplyDateUtils(t) ==
    /\ fx = NoFx
    /\ fx' = [op |-> "dateUtils", t |-> t,
              startOfDay |-> startOfDay(t), endOfDay |-> endOfDay(t),
              startOfWeek |-> startOfWeek(t), endOfWeek |-> endOfWeek(t),
              startOfMonth |-> startOfMonth(t), endOfMonth |-> endOfMonth(t)]
    /\ UNCHANGED <<tz, extVars, proxyVars, uiVars>>

\* computeStatistics(events) called when new Date() is now
ApplyComputeStatistics(events, now) ==
    /\ fx = NoFx
    /\ fx' = [op |-> "computeStatistics", events |-> events, now |-> now,
              result |-> computeStatistics(events, now)]
    /\ UNCHANGED <<tz, extVars, proxyVars, uiVars>>

ApplyIsLoginSuccess(url) ==
    /\ fx = NoFx
    /\ fx' = [op |-> "isLoginSuccess", url |-> url, result |-> isLoginSuccess(url)]
    /\ UNCHANGED <<tz, extVars, proxyVars, uiVars>>

ApplyDetermineAggregationLevel(start_date, end_date) ==
    /\ fx = NoFx
    /\ fx' = [op |-> "determine_aggregation_level",
              start_date |-> start_date, end_date |-> end_date,
              result |-> determine_aggregation_level(start_date, end_date)]
    /\ UNCHANGED <<tz, extVars, proxyVars, uiVars>>

\* a bucketed series request over [rangeStart, rangeEnd) with events in the store
ApplyGetSeries(events, rangeStart, rangeEnd) ==
    /\ fx = NoFx
    /\ fx' = [op |-> "GetSeries", events |-> events,
              rangeStart |-> rangeStart, rangeEnd |-> rangeEnd,
              result |-> GetSeries(events, rangeStart, rangeEnd)]
    /\ UNCHANGED <<tz, extVars, proxyVars, uiVars>>

\* the bars of a chart: every list of up to MaxPoints data points with these counts
Counts == {0, 1, 2, 3, 43, 62}
DataPointLists ==
    UNION {[1..n -> {[count |-> c] : c \in Counts}] : n \in 0..MaxPoints}

\* calculateGradientColors on a list of data points
ApplyCalculateGradientColors(dataPoints) ==
    /\ fx = NoFx
    /\ fx' = [op |-> "calculateGradientColors", dataPoints |-> dataPoints,
              channels |-> GradientChannels(dataPoints),
              result |-> calculateGradientColors(dataPoints)]
    /\ UNCHANGED <<tz, extVars, proxyVars, uiVars>>

PureNext ==
    \/ \E dataPoints \in DataPointLists : ApplyCalculateGradientColors(dataPoints)
    \/ \E start \in RangeStarts, span \in Spans :
          ApplyDetermineAggregationLevel(start, start + span)
    \/ \E start \in RangeStarts, span \in SeriesSpans :
          \E events \in SeriesEventLists(start, start + span) :
              ApplyGetSeries(events, start, start + span)
    \/ \E t \in Instants : ApplyDateUtils(t)
    \/ \E events \in EventLists, now \in Nows : ApplyComputeStatistics(events, now)
    \/ \E url \in TestUrls : ApplyIsLoginSuccess(url)

(***************************************************************************)
(* Part D - the dashboard page (dashboard/static: graph and statistics     *)
(* auto-refresh) and the popup's statistics view (extension/popup)         *)
(***************************************************************************)
Periods == {"7d", "30d"}                     \* data-period of the filter buttons
Failures == {"status", "network"}            \* !response.ok, or fetch() rejects

\* the body of GET /api/statistics when the server has recorded v more events
StatsOf(v) == [today_count |-> v, week_count |-> v + 1, month_count |-> v + 2,
               total_count |-> v + 3]

\* the body of GET /api/graph-data?period=p when the server has recorded v more events
GraphOf(p, v) == [period |-> p, version |-> v]

NoChart == [period |-> "none", version |-> 0]
NoCompleted == [kind |-> "none", period |-> "none", by |-> "none", after |-> "none",
                outcome |-> "none"]

\* updateStatisticsDOM that writes the first card only
updateStatisticsDOM_FirstCard(shown, stats) ==
    [shown EXCEPT !.today = ToString(stats.today_count)]

\* updateStatisticsDOM: the four textContent assignments
updateStatisticsDOM(shown, stats) ==
    [today |-> ToString(stats.today_count),
     week |-> ToString(stats.week_count),
     month |-> ToString(stats.month_count),
     total |-> ToString(stats.total_count)]

\* a request as fetch() sends it, waiting at `await fetch(..)`; the server answers with
\* the data of its version at that time, and `after` tells whether the request completed
\* last had failed
NewFetch(kind, period, by) ==
    [id |-> issued + 1, kind |-> kind, period |-> period, version |-> version, by |-> by,
     pc |-> "fetch",
     after |-> IF completed.outcome \in Failures THEN "failure" ELSE "none"]

\* the page as the server rendered it, before DOMContentLoaded
DashInit ==
    /\ currentPeriod = "7d"
    /\ chartInstance = NoChart
    /\ autoRefreshInterval = FALSE
    /\ statsRefreshInterval = FALSE
    /\ cards = [today |-> ToString(StatsOf(0).today_count),
                week |-> ToString(StatsOf(0).week_count),
                month |-> ToString(StatsOf(0).month_count),
                total |-> ToString(StatsOf(0).total_count)]
    /\ fetches = {}
    /\ issued = 0
    /\ version = 0
    /\ completed = NoCompleted

\* the two DOMContentLoaded handlers: filter buttons, loadGraphData(currentPeriod, false),
\* startAutoRefresh(); cacheStatElements(), startStatsAutoRefresh()
DomContentLoaded ==
    /\ ~autoRefreshInterval /\ ~statsRefreshInterval
    /\ issued < MaxFetches
    /\ fetches' = fetches \cup {NewFetch("graph", currentPeriod, "load")}
    /\ issued' = issued + 1
    /\ autoRefreshInterval' = TRUE
    /\ statsRefreshInterval' = TRUE
    /\ UNCHANGED <<currentPeriod, chartInstance, cards, version, completed, popup, history>>
    /\ UNCHANGED <<extVars, proxyVars, pureVars>>

\* the proxy records a login: later responses carry new counts
ServerRecordsLogin ==
    /\ version < MaxVersions
    /\ version' = version + 1
    /\ UNCHANGED <<currentPeriod, chartInstance, autoRefreshInterval, statsRefreshInterval,
                   cards, fetches, issued, completed, popup, history>>
    /\ UNCHANGED <<extVars, proxyVars, pureVars>>

\* click on a filter button: currentPeriod = this.dataset.period; loadGraphData
FilterClick(period) ==
    /\ autoRefreshInterval
    /\ issued < MaxFetches
    /\ currentPeriod' = period
    /\ fetches' = fetches \cup {NewFetch("graph", period, "click")}
    /\ issued' = issued + 1
    /\ UNCHANGED <<chartInstance, autoRefreshInterval, statsRefreshInterval, cards, version,
                   completed, popup, history>>
    /\ UNCHANGED <<extVars, proxyVars, pureVars>>

\* the setInterval callback of startAutoRefresh: loadGraphData(currentPeriod, true)
GraphTick ==
    /\ autoRefreshInterval
    /\ issued < MaxFetches
    /\ fetches' = fetches \cup {NewFetch("graph", currentPeriod, "tick")}
    /\ issued' = issued + 1
    /\ UNCHANGED <<currentPeriod, chartInstance, autoRefreshInterval, statsRefreshInterval,
                   cards, version, completed, popup, history>>
    /\ UNCHANGED <<extVars, proxyVars, pureVars>>

\* the setInterval callback of startStatsAutoRefresh: loadStatistics(true)
StatsTick ==
    /\ statsRefreshInterval
    /\ issued < MaxFetches
    /\ fetches' = fetches \cup {NewFetch("stats", "none", "tick")}
    /\ issued' = issued + 1
    /\ UNCHANGED <<currentPeriod, chartInstance, autoRefreshInterval, statsRefreshInterval,
                   cards, version, completed, popup, history>>
    /\ UNCHANGED <<extVars, proxyVars, pureVars>>

\* loadGraphData / loadStatistics: `await fetch(..)` resolves with response.ok; the
\* function goes on to `await response.json()`
FetchResolved(f) ==
    /\ f \in fetches /\ f.pc = "fetch"
    /\ fetches' = (fetches \ {f}) \cup {[f EXCEPT !.pc = "json"]}
    /\ UNCHANGED <<currentPeriod, chartInstance, autoRefreshInterval, statsRefreshInterval,
                   cards, issued, version, completed, popup, history>>
    /\ UNCHANGED <<extVars, proxyVars, pureVars>>

\* loadGraphData: `await response.json()` resolves, renderGraph(data)
GraphResponse(f) ==
    /\ f \in fetches /\ f.kind = "graph" /\ f.pc = "json"
    /\ fetches' = fetches \ {f}
    /\ chartInstance' = GraphOf(f.period, f.version)
    /\ completed' = [kind |-> f.kind, period |-> f.period, by |-> f.by, after |-> f.after,
                     outcome |-> "ok"]
    /\ UNCHANGED <<currentPeriod, autoRefreshInterval, statsRefreshInterval, cards, issued,
                   version, popup, history>>
    /\ UNCHANGED <<extVars, proxyVars, pureVars>>

\* loadStatistics: `await response.json()` resolves, updateStatisticsDOM(stats)
StatsResponse(f) ==
    /\ f \in fetches /\ f.kind = "stats" /\ f.pc = "json"
    /\ fetches' = fetches \ {f}
    /\ cards' = updateStatisticsDOM(cards, StatsOf(f.version))
    /\ completed' = [kind |-> f.kind, period |-> f.period, by |-> f.by, after |-> f.after,
                     outcome |-> "ok"]
    /\ UNCHANGED <<currentPeriod, chartInstance, autoRefreshInterval, statsRefreshInterval,
                   issued, version, popup, history>>
    /\ UNCHANGED <<extVars, proxyVars, pureVars>>

\* FetchFailed that gives up polling after a failure
FetchFailed_GivesUp(f, failure) ==
    /\ f \in fetches
    /\ failure = "status" => f.pc = "fetch"
    /\ fetches' = fetches \ {f}
    /\ completed' = [kind |-> f.kind, period |-> f.period, by |-> f.by, after |-> f.after,
                     outcome |-> failure]
    /\ autoRefreshInterval' = (autoRefreshInterval /\ f.kind # "graph")
    /\ statsRefreshInterval' = (statsRefreshInterval /\ f.kind # "stats")
    /\ UNCHANGED <<currentPeriod, chartInstance, cards, issued, version, popup, history>>
    /\ UNCHANGED <<extVars, proxyVars, pureVars>>

\* loadGraphData / loadStatistics: `await fetch(..)` resolves with !response.ok
\* ("status"), or fetch(..) or response.json() rejects and the catch block runs
\* ("network"); console.error only
FetchFailed(f, failure) ==
    /\ f \in fetches
    /\ failure = "status" => f.pc = "fetch"
    /\ fetches' = fetches \ {f}
    /\ completed' = [kind |-> f.kind, period |-> f.period, by |-> f.by, after |-> f.after,
                     outcome |-> failure]
    /\ UNCHANGED <<currentPeriod, chartInstance, autoRefreshInterval, statsRefreshInterval,
                   cards, issued, version, popup, history>>
    /\ UNCHANGED <<extVars, proxyVars, pureVars>>

DashNext ==
    \/ DomContentLoaded
    \/ ServerRecordsLogin
    \/ \E period \in Periods : FilterClick(period)
    \/ GraphTick
    \/ StatsTick
    \/ \E f \in fetches : FetchResolved(f)
    \/ \E f \in fetches : GraphResponse(f)
    \/ \E f \in fetches : StatsResponse(f)
    \/ \E f \in fetches, failure \in Failures : FetchFailed(f, failure)

(***************************************************************************)
(* Part D - popup.ts, renderStatistics                                     *)
(***************************************************************************)
\* new Date() when the popup opens: Friday 2025-11-21 15:30 UTC
PopupNow == At(2025, 11, 21, 15, 30, 0, 0)
\* what getLoginEvents() resolves with: no event, one of today, one of last month
PopupEventLists == {<<>>,
                    <<[timestamp |-> At(2025, 11, 21, 10, 0, 0, 0)]>>,
                    <<[timestamp |-> At(2025, 10, 27, 12, 0, 0, 0)]>>}

\* renderStatistics up to `await storageManager.getLoginEvents()`
PopupInit ==
    popup = [pc |-> "getLoginEvents", loadingHidden |-> FALSE, emptyHidden |-> TRUE,
             emptyHtml |-> "no-logins", contentHidden |-> TRUE,
             today |-> "", week |-> "", month |-> "", total |-> "", events |-> <<>>]

\* renderStatistics after getLoginEvents() resolved
PopupLoaded(events, now) ==
    \E stats \in {computeStatistics(events, now)} :
        /\ popup.pc = "getLoginEvents"
        /\ popup' = IF stats.total = 0
                    THEN [popup EXCEPT !.pc = "loaded", !.events = events,
                                       !.loadingHidden = TRUE,
                                       !.emptyHidden = FALSE, !.contentHidden = TRUE]
                    ELSE [popup EXCEPT !.pc = "loaded", !.events = events,
                                       !.loadingHidden = TRUE,
                                       !.emptyHidden = TRUE, !.contentHidden = FALSE,
                                       !.today = ToString(stats.today),
                                       !.week = ToString(stats.thisWeek),
                                       !.month = ToString(stats.thisMonth),
                                       !.total = ToString(stats.total)]
        /\ UNCHANGED <<dashVars, history>>
        /\ UNCHANGED <<extVars, proxyVars, pureVars>>

\* PopupLoadFailed that treats the failure as an empty list of events
PopupLoadFailed_AsEmpty ==
    /\ popup.pc = "getLoginEvents"
    /\ popup' = [popup EXCEPT !.pc = "failed", !.loadingHidden = TRUE,
                              !.emptyHidden = FALSE, !.contentHidden = TRUE]
    /\ UNCHANGED <<dashVars, history>>
    /\ UNCHANGED <<extVars, proxyVars, pureVars>>

\* renderStatistics: getLoginEvents() rejected, the catch block
PopupLoadFailed ==
    /\ popup.pc = "getLoginEvents"
    /\ popup' = [popup EXCEPT !.pc = "failed", !.loadingHidden = TRUE,
                              !.emptyHtml = "error", !.emptyHidden = FALSE]
    /\ UNCHANGED <<dashVars, history>>
    /\ UNCHANGED <<extVars, proxyVars, pureVars>>

PopupNext ==
    \/ \E events \in PopupEventLists : PopupLoaded(events, PopupNow)
    \/ PopupLoadFailed

(***************************************************************************)
(* Part D - popup.ts, renderHistory and the history tab                    *)
(***************************************************************************)
HISTORY_LIMIT == 100

\* Array.prototype.slice(-n): the last n elements, all of them when there are fewer
slice(events, n) ==
    SubSeq(events, IF Len(events) > n THEN Len(events) - n + 1 ELSE 1, Len(events))

\* Array.prototype.reverse()
reverse(events) == [i \in 1..Len(events) |-> events[Len(events) + 1 - i]]

\* formatLoginEvent: 'Nov 21, 2025 at 03:30 PM'; seconds and milliseconds are dropped
formatLoginEvent(timestamp) ==
    LET date == NewDate(timestamp)
        timeOfDay == LocalTime(date).ms
        hours == timeOfDay \div MsPerHour
    IN  [month |-> getMonth(date), day |-> getDate(date), year |-> getFullYear(date),
         hour |-> IF hours % 12 = 0 THEN 12 ELSE hours % 12,
         minute |-> (timeOfDay \div (60 * 1000)) % 60,
         pm |-> hours >= 12]

\* the li element renderHistory builds for the event at a position of the list
HistoryItem(event, index) ==
    [icon |-> ToString(index + 1),
     timestamp |-> formatLoginEvent(event.timestamp),
     url |-> event.url,
     title |-> event.url]

\* the n-th event stored: 25 minutes after the one before it
StoredEvent(n) ==
    [timestamp |-> [day |-> DaysFromCivil(2025, 11, 17) + (n \div 50),
                    ms |-> (n % 50) * 25 * 60 * 1000 + 7123],
     url |-> "https://login.microsoftonline.com/common/oauth2/v2.0/token?n=" \o ToString(n)]

\* what getLoginEvents() resolves with: the first n events stored
HistoryEventLists == {[i \in 1..n |-> StoredEvent(i)] : n \in {0, 1, 3, 99, 100, 101, 103}}

\* the history view as popup.html has it, before the tab was ever opened
HistoryInit ==
    history = [clicks |-> 0, inFlight |-> 0,
               loading |-> "markup", empty |-> "markup", list |-> "markup",
               emptyHtml |-> "no-events", items |-> <<>>,
               last |-> "none", loaded |-> <<>>]

\* click on the history tab: renderHistory() up to `await getLoginEvents()`
HistoryTabClick ==
    /\ history.clicks < MaxClicks
    /\ history' = [history EXCEPT !.clicks = @ + 1, !.inFlight = @ + 1,
                                  !.loading = "shown", !.empty = "hidden",
                                  !.list = "hidden"]
    /\ UNCHANGED <<dashVars, popup>>
    /\ UNCHANGED <<extVars, proxyVars, pureVars>>

\* renderHistory after getLoginEvents() resolved, with whatever is stored by then (the
\* stored list grows with storeLoginEvent and is emptied by clear() and initialize());
\* with no events the li elements of an earlier load stay in the hidden list
HistoryLoaded(allEvents) ==
    LET events == reverse(slice(allEvents, HISTORY_LIMIT))
    IN  /\ history.inFlight > 0
        /\ history' = IF Len(events) = 0
                      THEN [history EXCEPT !.inFlight = @ - 1, !.last = "ok",
                                           !.loaded = allEvents,
                                           !.loading = "hidden", !.empty = "shown",
                                           !.list = "hidden"]
                      ELSE [history EXCEPT !.inFlight = @ - 1, !.last = "ok",
                                           !.loaded = allEvents,
                                           !.loading = "hidden", !.empty = "hidden",
                                           !.list = "shown",
                                           !.items = [i \in 1..Len(events) |->
                                                         HistoryItem(events[i], i - 1)]]
        /\ UNCHANGED <<dashVars, popup>>
        /\ UNCHANGED <<extVars, proxyVars, pureVars>>

\* renderHistory: getLoginEvents() rejected, the catch block
HistoryLoadFailed ==
    /\ history.inFlight > 0
    /\ history' = [history EXCEPT !.inFlight = @ - 1, !.last = "failed",
                                  !.loading = "hidden", !.emptyHtml = "error",
                                  !.empty = "shown"]
    /\ UNCHANGED <<dashVars, popup>>
    /\ UNCHANGED <<extVars, proxyVars, pureVars>>

HistoryNext ==
    \/ HistoryTabClick
    \/ \E allEvents \in HistoryEventLists : HistoryLoaded(allEvents)
    \/ HistoryLoadFailed

UiInit == DashInit /\ PopupInit /\ HistoryInit

(***************************************************************************)
(* Specifications                                                          *)
(***************************************************************************)
\* the detector and the storage manager never read the local time: the zone is left at UTC
Init == ExtInit /\ ProxyInit /\ fx = NoFx /\ tz = ZoneUTC /\ UiInit

\* the proxy runs without the extension: the extension's variables stay as loaded
InitProxy ==
    ExtInit /\ storage = EmptyStorage /\ ProxyInit /\ fx = NoFx /\ tz = ZoneUTC /\ UiInit

\* the scripts that read the local time, on a host in any of the zones
InitZones ==
    ExtInit /\ storage = EmptyStorage /\ ProxyInit /\ fx = NoFx /\ tz \in Zones /\ UiInit

Next == ExtNext

\* the extension: detector and storage manager, install events and resets of the storage
Spec == Init /\ [][Next]_vars

\* the proxy correlator, one hook at a time
SpecCorr == InitProxy /\ [][ProxyNext]_vars

\* the proxy correlator, request() on concurrent threads
SpecThreads == InitProxy /\ [][ThreadsNext]_vars

\* the detector on initialised storage, with navigation events that reach the listener
\* some time after the navigation completed (details.timeStamp before Date.now()):
\* at once, within the cooldown, after it, and after a stall of the event loop; no
\* rejected storage operation, no install event, and the storage is not reset
WideLags == {0, 500, 1500, 6000}

InitLag ==
    ExtInit /\ storage = InitializedStorage /\ ProxyInit /\ fx = NoFx /\ tz = ZoneUTC /\ UiInit

LagNext ==
    \/ \E d \in ClockSteps : Tick(d)
    \/ InitGetMetadata
    \/ \E url \in Urls, lag \in WideLags, skew \in Skews :
          HandleNavigationCompleted(0, url, 1, lag, skew)
    \/ \E i \in DOMAIN calls : StoreGet(i)
    \/ \E i \in DOMAIN calls : StoreSet1(i)
    \/ \E i \in DOMAIN calls : StoreBytes(i)
    \/ \E i \in DOMAIN calls : StoreSet2(i)

SpecLag == InitLag /\ [][LagNext]_vars

\* the detector: the navigations of every frame and tab, with storage operations that
\* succeed; no install event, and the storage is not reset
DetectNext ==
    \/ \E d \in ClockSteps : Tick(d)
    \/ InitGetMetadata
    \/ InitInitialize
    \/ InitFail
    \/ \E frameId \in FrameIds, url \in Urls, tabId \in Tabs, lag \in Lags, skew \in Skews :
          HandleNavigationCompleted(frameId, url, tabId, lag, skew)
    \/ \E i \in DOMAIN calls : StoreGet(i)
    \/ \E i \in DOMAIN calls : StoreSet1(i)
    \/ \E i \in DOMAIN calls : StoreBytes(i)
    \/ \E i \in DOMAIN calls : StoreSet2(i)

SpecDetect == Init /\ [][DetectNext]_vars

\* the detector with storage operations that may reject: the main-frame navigations of
\* one tab; no install event, and the storage is not reset
FailNext ==
    \/ \E d \in ClockSteps : Tick(d)
    \/ InitGetMetadata
    \/ InitInitialize
    \/ InitFail
    \/ \E url \in Urls, lag \in Lags, skew \in Skews :
          HandleNavigationCompleted(0, url, 1, lag, skew)
    \/ \E i \in DOMAIN calls : StoreGet(i)
    \/ \E i \in DOMAIN calls : StoreSet1(i)
    \/ \E i \in DOMAIN calls : StoreBytes(i)
    \/ \E i \in DOMAIN calls : StoreSet2(i)
    \/ \E i \in DOMAIN calls, error \in StorageErrors : StoreReject(i, error)

SpecFail == Init /\ [][FailNext]_vars

\* the start of the background script: initialize(), the install handler, and the
\* main-frame navigations of one tab, with storage operations that succeed once the
\* listener runs; the storage is not reset
StartNext ==
    \/ \E d \in ClockSteps : Tick(d)
    \/ InitGetMetadata
    \/ InitInitialize
    \/ InitFail
    \/ \E reason \in {"install", "update"} : OnInstalled(reason)
    \/ InstalledInitialize
    \/ InstalledFail
    \/ \E url \in Urls, lag \in Lags, skew \in Skews :
          HandleNavigationCompleted(0, url, 1, lag, skew)
    \/ \E i \in DOMAIN calls : StoreGet(i)
    \/ \E i \in DOMAIN calls : StoreSet1(i)
    \/ \E i \in DOMAIN calls : StoreBytes(i)
    \/ \E i \in DOMAIN calls : StoreSet2(i)

SpecStart == Init /\ [][StartNext]_vars

\* the popup's history view
SpecHistory == InitZones /\ [][HistoryNext]_vars

\* the dashboard page
SpecDash == InitProxy /\ [][DashNext]_vars

\* the statistics views: the popup, and the dashboard page left to its timers, with the
\* request of the graph at load and the refreshes of the statistics cards
StatsNext ==
    \/ PopupNext
    \/ DomContentLoaded
    \/ ServerRecordsLogin
    \/ StatsTick
    \/ \E f \in fetches : FetchResolved(f)
    \/ \E f \in fetches : GraphResponse(f)
    \/ \E f \in fetches : StatsResponse(f)
    \/ \E f \in fetches, failure \in Failures : FetchFailed(f, failure)

SpecStats == InitZones /\ [][StatsNext]_vars

\* the pure functions alone
SpecPure == InitZones /\ [][PureNext]_vars

(***************************************************************************)
(* Properties                                                              *)
(***************************************************************************)
LoginEvents == getLoginEvents(storage)
Stored(event) == \E n \in DOMAIN LoginEvents : LoginEvents[n] = event
QualifyingNav(frameId, url) == frameId = 0 /\ isLoginSuccess(url)

\* C1: any two accepted logins were accepted at least COOLDOWN_MS apart; and less than
\* COOLDOWN_MS after the last accepted login, no step that starts a storeLoginEvent,
\* writes the storage or moves the cooldown timestamp is the handling of a qualifying
\* main-frame navigation (such a navigation is skipped and nothing is stored for it).
\* (The handler never writes the storage nor touches the earlier calls, so only steps
\* that leave those alone have to be compared with it.)
C1_CooldownSkips ==
    /\ [](\A i, j \in DOMAIN calls :
            i < j => calls[j].acceptedAt - calls[i].acceptedAt >= COOLDOWN_MS)
    /\ [][( /\ Len(calls) > 0
            /\ clock - calls[Len(calls)].acceptedAt < COOLDOWN_MS
            /\ ~UNCHANGED <<calls, storage, lastLoginTime>>
            /\ storage' = storage
            /\ Len(calls') >= Len(calls)
            /\ SubSeq(calls', 1, Len(calls)) = calls )
          => ~\E frameId \in FrameIds, url \in Urls, tabId \in Tabs, lag \in Lags, skew \in Skews :
                 /\ QualifyingNav(frameId, url)
                 /\ HandleNavigationCompleted(frameId, url, tabId, lag, skew)]_vars

\* two logins were accepted COOLDOWN_MS apart (their events created less than that
\* apart, the first one a millisecond after it was accepted), and a qualifying
\* navigation was then skipped by the cooldown
C1_Witness ==
    /\ Len(calls) = 2
    /\ calls[2].acceptedAt - calls[1].acceptedAt = COOLDOWN_MS
    /\ calls[2].event.detected_at - calls[1].event.detected_at < COOLDOWN_MS
    /\ nav.verdict = "cooldown"
    /\ nav.at - calls[2].acceptedAt < COOLDOWN_MS

\* C2: a qualifying main-frame navigation handled less than 1 s after an accepted login
\* of a different tab is itself accepted (a storeLoginEvent call is started for it).
C2_TabsCountedIndependently ==
    [][\A frameId \in FrameIds, url \in Urls, tabId \in Tabs, lag \in Lags, skew \in Skews :
          ( /\ HandleNavigationCompleted(frameId, url, tabId, lag, skew)
            /\ QualifyingNav(frameId, url)
            /\ nav.verdict = "accepted"
            /\ nav.tabId # tabId
            /\ clock - nav.at < COOLDOWN_MS )
          => Len(calls') = Len(calls) + 1]_vars

\* C3: a callback records an event exactly when a session of its key is open and the
\* callback comes at most WINDOW seconds after the CONNECT (WINDOW itself included).
C3_CallbackWithinWindow ==
    [][\A k \in Keys, req \in Requests :
          (Request(k, req) /\ IsCallback(req))
          => ( recorded'[k] = recorded[k] + 1
               <=> \E s \in sessions : s.id = k /\ time - s.t <= WINDOW )]_vars

\* C4: no more events are recorded for a key than CONNECTs were seen for it, and no step
\* that records an event is a request that finds no session of its key, or only one
\* older than the window.
C4_OneEventPerPairing ==
    /\ [](\A k \in Keys : recorded[k] <= connects[k])
    /\ [][recorded' # recorded
          => ~\E k \in Keys, req \in Requests :
                 /\ \A s \in sessions : s.id = k => time - s.t > WINDOW
                 /\ Request(k, req)]_vars

\* a second callback after the one that consumed the only session was ignored
C4_Witness ==
    \E k \in Keys :
        /\ connects[k] = 1
        /\ recorded[k] = 1
        /\ obs = [kind |-> "request", key |-> k, outcome |-> "nosession"]

\* C5: with callbacks of one key running on concurrent threads, no more events are
\* recorded for the key than sessions were opened for it.
C5_OneConsumerPerSession ==
    \A k \in Keys : recorded[k] <= connects[k]

\* C6: the dict holds at most one session per key; a CONNECT to the identity provider
\* (a step that counts one) leaves exactly one session of its key, opened now; a callback
\* within the window of that session records exactly one event and removes the session.
C6_ConnectReplaces ==
    /\ [](\A k \in Keys : Cardinality({s \in sessions : s.id = k}) <= 1)
    /\ [][\A k \in Keys :
            connects'[k] # connects[k]
            => {s \in sessions' : s.id = k} = {[id |-> k, t |-> time]}]_vars
    /\ [][\A k \in Keys :
            ( /\ obs'.kind = "request" /\ obs'.key = k
              /\ \E s \in sessions : s.id = k /\ time - s.t < WINDOW
              /\ \E req \in Requests : IsCallback(req) /\ Request(k, req) )
            => /\ recorded' = [recorded EXCEPT ![k] = @ + 1]
               /\ ~DictHas(sessions', k)]_vars

\* two CONNECTs of one key, then a callback at 60 s that is within the window of the
\* second CONNECT only: one event
C6_Witness ==
    \E k \in Keys :
        /\ connects[k] = 2
        /\ recorded[k] = 1
        /\ time = WINDOW
        /\ obs = [kind |-> "request", key |-> k, outcome |-> "recorded"]

\* C7: after every CONNECT or request has been handled, the dict holds no session
\* older than the window.
C7_SweptOnEveryObservation ==
    [][( \/ \E k \in Keys, host \in Hosts : HttpConnect(k, host)
         \/ \E k \in Keys, req \in Requests : Request(k, req) )
       => \A s \in sessions' : time' - s.t <= WINDOW]_vars

\* C8: while no two storeLoginEvent calls have overlapped and the user has not reset
\* the storage, an event that a fulfilled
\* call has persisted stays in loginEvents, unmodified, over every step of the detector.
C8_AppendOnly ==
    [][\A i \in DOMAIN calls :
          ( /\ \A j \in DOMAIN calls' : ~calls'[j].overlapped
            /\ ~cleared'
            /\ calls[i].pc = "done"
            /\ Stored(calls[i].event) )
          => \E n \in DOMAIN getLoginEvents(storage') :
                 getLoginEvents(storage')[n] = calls[i].event]_vars

\* C9: once every storeLoginEvent call is fulfilled (and neither the install handler has
\* reinitialised the storage nor the user reset it), the events of all calls are in loginEvents.
C9_NoLostEvent ==
    (installPc # "installed" /\ ~cleared /\ \A i \in DOMAIN calls : calls[i].pc = "done")
    => \A i \in DOMAIN calls : Stored(calls[i].event)

\* C10: whenever the storage holds metadata (and neither the install handler has
\* reinitialised it nor the user reset it), metadata.eventCount is the length of loginEvents.
C10_CountMatchesEvents ==
    (installPc # "installed" /\ ~cleared /\ Has(storage, "metadata"))
    => storage["metadata"].eventCount = Len(LoginEvents)

\* C11: after n storeLoginEvent calls made one after the other on initialised storage
\* (none overlapping another, all fulfilled, the install handler not having
\* reinitialised the storage nor the user reset it), loginEvents is the events of the calls in call order and
\* metadata.eventCount is n; with n = 0 loginEvents is the empty list.
C11_SequentialStores ==
    ( /\ installPc # "installed"
      /\ ~cleared
      /\ Has(storage, "metadata")
      /\ \A i \in DOMAIN calls : calls[i].pc = "done" /\ ~calls[i].overlapped )
    => /\ LoginEvents = [i \in 1..Len(calls) |-> calls[i].event]
       /\ storage["metadata"].eventCount = Len(calls)

\* two calls, the second started after the first was fulfilled, both fulfilled
C11_Witness ==
    /\ installPc # "installed"
    /\ Len(calls) = 2
    /\ \A i \in DOMAIN calls : calls[i].pc = "done" /\ ~calls[i].overlapped
    /\ Len(LoginEvents) = 2

\* C12: a storeLoginEvent call that was rejected is followed by one more call for the
\* same event (the retry).
C12_RetriedOnce ==
    \A i \in DOMAIN calls :
        calls[i].pc = "rejected"
        => \E j \in DOMAIN calls : j # i /\ calls[j].event = calls[i].event

\* C13: a rejected storeLoginEvent call leaves the listener registered: the step that
\* rejects changes nothing of the detector, and navigations are still handled after it.
C13_FailureContained ==
    /\ []((\E i \in DOMAIN calls : calls[i].pc = "rejected") => listening)
    /\ [][\A i \in DOMAIN calls :
            (calls[i].pc # "rejected" /\ calls'[i].pc = "rejected")
            => UNCHANGED <<listening, lastLoginTime, nav, storage>>]_vars

\* the first write was rejected, and a navigation handled after that was accepted
C13_Witness ==
    /\ Len(calls) = 2
    /\ calls[1].pc = "rejected"
    /\ ~calls[2].overlapped
    /\ nav.verdict = "accepted"
    /\ listening

\* the time value n times 24 hours after a time value
PlusDays(date, n) == [day |-> date.day + n, ms |-> date.ms]
\* the local day a time value lies in, and the time value of 00:00 of a local day
LocalDay(date) == LocalTime(date).day
Midnight(dayNumber) == UTC([day |-> dayNumber, ms |-> 0])
\* the day number of the Monday of the week (Monday to Sunday) a day lies in
MondayOf(dayNumber) == dayNumber - ((dayNumber + 3) % 7)
IsLeapYear(y) == (y % 4 = 0 /\ y % 100 # 0) \/ y % 400 = 0
DaysInMonth(y, m) ==
    IF m = 2 THEN (IF IsLeapYear(y) THEN 29 ELSE 28)
    ELSE IF m \in {4, 6, 9, 11} THEN 30 ELSE 31
\* the number of events of a list with from <= timestamp < to
CountBetween(events, from, to) ==
    Cardinality({i \in DOMAIN events :
                    DateGE(events[i].timestamp, from) /\ ~DateGE(events[i].timestamp, to)})

\* C14: the today count of computeStatistics is the number of events with
\* dayStart(now) <= timestamp < dayStart(now) + 1 day.
C14_TodayHalfOpen ==
    fx.op = "computeStatistics"
    => fx.result.today = CountBetween(fx.events, Midnight(LocalDay(fx.now)),
                                       Midnight(LocalDay(fx.now) + 1))

\* C15: the thisWeek count of computeStatistics is the number of events from Monday
\* 00:00 of the week of now up to, not including, the next Monday 00:00.
C15_WeekMondayToSunday ==
    fx.op = "computeStatistics"
    => fx.result.thisWeek = CountBetween(fx.events, Midnight(MondayOf(LocalDay(fx.now))),
                                          Midnight(MondayOf(LocalDay(fx.now)) + 7))

\* C16: the counts of computeStatistics satisfy total >= thisMonth >= thisWeek.
C16_CountsOrdered ==
    fx.op = "computeStatistics"
    => fx.result.total >= fx.result.thisMonth /\ fx.result.thisMonth >= fx.result.thisWeek

\* C17: startOfDay(t) <= t < endOfDay(t), and endOfDay(t) is 24 hours after
\* startOfDay(t).
C17_DayHalfOpen ==
    fx.op = "dateUtils"
    => /\ DateGE(fx.t, fx.startOfDay)
       /\ ~DateGE(fx.t, fx.endOfDay)
       /\ fx.endOfDay = PlusDays(fx.startOfDay, 1)

\* C18: startOfWeek(t) is a Monday 00:00:00 not after t, and endOfWeek(t) is 7 days
\* after startOfWeek(t).
C18_WeekSevenDays ==
    fx.op = "dateUtils"
    => /\ fx.startOfWeek = Midnight(MondayOf(LocalDay(fx.startOfWeek)))
       /\ DateGE(fx.t, fx.startOfWeek)
       /\ fx.endOfWeek = PlusDays(fx.startOfWeek, 7)

\* C19: startOfMonth(t) is the 1st of t's month at 00:00 and endOfMonth(t) is the number
\* of days of that month later: 00:00 of the 1st of the next month (for December, of
\* January of the next year).
C19_MonthWholeDays ==
    fx.op = "dateUtils"
    => LET c == CivilFromDays(LocalDay(fx.t))
       IN  /\ fx.startOfMonth = Midnight(DaysFromCivil(c.year, c.month, 1))
           /\ fx.endOfMonth = Midnight(DaysFromCivil(c.year, c.month, 1)
                                       + DaysInMonth(c.year, c.month))

\* C20: isLoginSuccess(url) is true exactly when url starts with the https origin of
\* login.microsoftonline.com and holds 'code=' together with 'oauth2', or one of the
\* two token paths; it is false for every url that does not start with that origin.
C20_LoginSuccessPattern ==
    fx.op = "isLoginSuccess"
    => /\ fx.result
            <=> /\ startsWith(fx.url, "https://login.microsoftonline.com/")
                /\ \/ includes(fx.url, "code=") /\ includes(fx.url, "oauth2")
                   \/ includes(fx.url, "/oauth2/v2.0/token")
                   \/ includes(fx.url, "/oauth2/token")
       /\ ~startsWith(fx.url, "https://login.microsoftonline.com/") => ~fx.result
       /\ fx.url \in {"https://login.microsoftonline.com/common/login", "not a url", ""}
            => ~fx.result

\* an http url with 'code=' and 'oauth2' was rejected
C20_Witness ==
    /\ fx.op = "isLoginSuccess"
    /\ fx.url = "http://login.microsoftonline.com/oauth2/authorize?code=ABC"
    /\ ~fx.result

\* C21: no step that starts a storeLoginEvent, writes the storage or moves the cooldown
\* timestamp is the handling of a navigation of a sub-frame (frameId # 0) or of a url
\* that is not a login success: such a navigation stores nothing and leaves
\* lastLoginTime as it was.
C21_IgnoredNavigation ==
    [][( /\ ~UNCHANGED <<calls, storage, lastLoginTime>>
         /\ storage' = storage
         /\ Len(calls') >= Len(calls)
         /\ SubSeq(calls', 1, Len(calls)) = calls )
       => ~\E frameId \in FrameIds, url \in Urls, tabId \in Tabs, lag \in Lags, skew \in Skews :
              /\ frameId # 0 \/ ~isLoginSuccess(url)
              /\ HandleNavigationCompleted(frameId, url, tabId, lag, skew)]_vars

\* a navigation of a sub-frame, or of a page that is no login success, was handled when
\* the cooldown of the only accepted login was over: still one call, the timestamp kept
C21_Witness ==
    /\ nav.verdict \in {"frame", "url"}
    /\ Len(calls) = 1
    /\ nav.at - calls[1].acceptedAt >= COOLDOWN_MS
    /\ lastLoginTime = calls[1].acceptedAt

\* C22: the aggregation level of a range of h hours (days = h / 24) is hour when
\* days <= 7, day when 7 < days <= 90, week when days > 90.
C22_AggregationLevel ==
    fx.op = "determine_aggregation_level"
    => LET hours == fx.end_date - fx.start_date
       IN  fx.result = IF hours <= 7 * 24 THEN "hour"
                       ELSE IF hours <= 90 * 24 THEN "day"
                       ELSE "week"

\* C23: the counts of the buckets of a series add up to the number of events of the
\* requested range, which is also the total_events of the response.
C23_BucketsSumToTotal ==
    fx.op = "GetSeries"
    => /\ SumCounts(fx.result.dataPoints) = CountInRange(fx.events, fx.rangeStart, fx.rangeEnd)
       /\ fx.result.total_events = CountInRange(fx.events, fx.rangeStart, fx.rangeEnd)

\* a series of daily buckets, with an event on the boundary of two buckets and an
\* event outside the range
C23_Witness ==
    /\ fx.op = "GetSeries"
    /\ fx.result.aggregation_level = "day"
    /\ \E i \in DOMAIN fx.events, k \in DOMAIN fx.result.dataPoints :
           k > 1 /\ fx.events[i] = fx.result.dataPoints[k].bucket_start
    /\ \E i \in DOMAIN fx.events : fx.events[i] >= fx.rangeEnd
    /\ fx.result.total_events = 1

\* a step that completes a request: one request leaves the set of those in flight
Completes == fetches' # fetches /\ fetches' \subseteq fetches

\* C24: a failed statistics or graph request (non-OK status or network error) leaves
\* the cards and the chart as they were and both intervals set, and after a failure
\* the next tick of either interval still issues a request: nothing counts failures.
C24_FailureKeepsValuesAndPolling ==
    /\ [][(Completes /\ completed'.outcome \in Failures)
           => /\ cards' = cards
              /\ chartInstance' = chartInstance
              /\ autoRefreshInterval' = autoRefreshInterval
              /\ statsRefreshInterval' = statsRefreshInterval]_vars
    /\ [](completed.outcome \in Failures
           => /\ autoRefreshInterval /\ statsRefreshInterval
              /\ (issued < MaxFetches => ENABLED StatsTick /\ ENABLED GraphTick))

\* a request issued by a tick after a failure has been answered, and a second failure
\* in a row has left the values of an earlier response on display
C24_Witness ==
    /\ completed.outcome \in Failures
    /\ completed.by = "tick"
    /\ completed.after = "failure"
    /\ chartInstance # NoChart

\* C25: the four cards always show the counts of one response.
C25_CardsFromOneResponse ==
    \E v \in 0..MaxVersions :
        /\ cards.today = ToString(StatsOf(v).today_count)
        /\ cards.week = ToString(StatsOf(v).week_count)
        /\ cards.month = ToString(StatsOf(v).month_count)
        /\ cards.total = ToString(StatsOf(v).total_count)

\* a response with new counts has replaced the counts on display while another
\* statistics request was in flight
C25_Witness ==
    /\ completed.kind = "stats" /\ completed.outcome = "ok"
    /\ cards.today = ToString(StatsOf(1).today_count)
    /\ cards.total = ToString(StatsOf(1).total_count)
    /\ \E f \in fetches : f.kind = "stats" /\ f.version = 0

\* C26: the chart is only ever updated with data of the currently selected period.
C26_ChartOfSelectedPeriod ==
    [][(Completes /\ completed'.kind = "graph" /\ completed'.outcome = "ok")
        => chartInstance'.period = currentPeriod']_vars

\* the number of events of the list the popup loaded that fall in [from, to)
PopupCount(from, to) == CountBetween(popup.events, from, to)

\* C27: a failed load of the popup shows the error message and neither counts nor the
\* no-logins state; the no-logins state and a displayed zero come from a load that
\* succeeded and found no event in the period; a failed statistics request of the
\* dashboard leaves the cards as they were.
C27_FailureNeverShownAsZero ==
    /\ [](popup.pc = "failed"
           => /\ popup.emptyHtml = "error" /\ ~popup.emptyHidden
              /\ popup.contentHidden /\ popup.loadingHidden)
    /\ []((~popup.emptyHidden /\ popup.emptyHtml = "no-logins")
           => popup.pc = "loaded" /\ Len(popup.events) = 0)
    /\ [](~popup.contentHidden
           => /\ popup.pc = "loaded" /\ Len(popup.events) > 0
              /\ popup.today = "0"
                 => PopupCount(Midnight(LocalDay(PopupNow)),
                               Midnight(LocalDay(PopupNow) + 1)) = 0
              /\ popup.week = "0"
                 => PopupCount(Midnight(MondayOf(LocalDay(PopupNow))),
                               Midnight(MondayOf(LocalDay(PopupNow)) + 7)) = 0
              /\ popup.month = "0"
                 => PopupCount(Midnight(DaysFromCivil(getFullYear(PopupNow),
                                                      getMonth(PopupNow) + 1, 1)),
                               Midnight(DaysFromCivil(getFullYear(PopupNow),
                                                      getMonth(PopupNow) + 1, 1)
                                        + DaysInMonth(getFullYear(PopupNow),
                                                      getMonth(PopupNow) + 1))) = 0)
    /\ [][(Completes /\ completed'.kind = "stats" /\ completed'.outcome \in Failures)
           => cards' = cards]_vars

\* the popup's load failed, and a statistics request of the dashboard failed while the
\* cards showed the counts of an earlier response
C27_Witness ==
    /\ popup.pc = "failed"
    /\ completed.kind = "stats" /\ completed.outcome \in Failures
    /\ cards.today = ToString(StatsOf(1).today_count)

\* the smallest and the largest timestamp of a non-empty list of events
MinTimestamp(events) ==
    CHOOSE t \in {events[i].timestamp : i \in DOMAIN events} :
        \A i \in DOMAIN events : t <= events[i].timestamp
MaxTimestamp(events) ==
    CHOOSE t \in {events[i].timestamp : i \in DOMAIN events} :
        \A i \in DOMAIN events : t >= events[i].timestamp

\* C28: no two events of loginEvents have timestamps less than 1 second apart.
C28_NoDuplicates ==
    \A i, j \in DOMAIN LoginEvents :
        i < j => \/ LoginEvents[j].timestamp - LoginEvents[i].timestamp >= COOLDOWN_MS
                 \/ LoginEvents[i].timestamp - LoginEvents[j].timestamp >= COOLDOWN_MS

\* C29: loginEvents is sorted by timestamp, oldest first (stated for the runs in which
\* no two storeLoginEvent calls overlap, so that only the order of arrival matters).
C29_SortedByTimestamp ==
    (\A c \in DOMAIN calls : ~calls[c].overlapped)
    => \A i, j \in DOMAIN LoginEvents :
           i < j => LoginEvents[i].timestamp <= LoginEvents[j].timestamp

\* C30: when storeLoginEvent calls have completed, one after the other, and none is
\* running, metadata.oldestEvent is the smallest and metadata.newestEvent the largest
\* timestamp of the stored events.
C30_OldestNewest ==
    ( /\ Len(calls) > 0
      /\ \A i \in DOMAIN calls : calls[i].pc = "done" /\ ~calls[i].overlapped
      /\ Len(LoginEvents) > 0 )
    => /\ storage["metadata"].oldestEvent = MinTimestamp(LoginEvents)
       /\ storage["metadata"].newestEvent = MaxTimestamp(LoginEvents)

\* the detection latency the validation rules tolerate, in ms
DETECTION_TOLERANCE_MS == 5000

\* C31: every stored event has detected_at less than 5000 ms from its timestamp (an
\* event created further from its timestamp is never written to loginEvents).
C31_DetectedNearTimestamp ==
    \A n \in DOMAIN LoginEvents :
        /\ LoginEvents[n].detected_at - LoginEvents[n].timestamp < DETECTION_TOLERANCE_MS
        /\ LoginEvents[n].timestamp - LoginEvents[n].detected_at < DETECTION_TOLERANCE_MS

\* C32: when a write (set) of a storeLoginEvent call is rejected, the call rejects with
\* the quota message or with the storage's own error, and loginEvents and metadata are
\* as they were before the call (stated for the first call of a run, before which the
\* storage was the initialised one).
C32_RejectedWriteChangesNothing ==
    [][(/\ Len(calls) = 1
        /\ calls[1].pc \in {"set1", "set2"}
        /\ Len(calls') = 1
        /\ calls'[1].pc = "rejected")
       => /\ calls'[1].error \in {[isError |-> TRUE, message |-> QUOTA_MESSAGE]}
                                 \cup {e \in StorageErrors : ~includes(e.message, "QUOTA_BYTES")}
          /\ storage' = InitializedStorage]_vars

\* C33: the event of a rejected storeLoginEvent call is not in loginEvents.
C33_RejectedMeansNotPersisted ==
    \A i \in DOMAIN calls : calls[i].pc = "rejected" => ~Stored(calls[i].event)

\* C37: the cooldown timestamp changes only in a step that accepts an event, and a
\* navigation is skipped by the cooldown only less than COOLDOWN_MS after the last
\* accepted one: at COOLDOWN_MS or more a qualifying navigation is accepted, whatever
\* was skipped in between.
C37_SkippedDoNotExtend ==
    /\ [][lastLoginTime' # lastLoginTime
           => /\ Len(calls') = Len(calls) + 1
              /\ nav'.verdict = "accepted"
              /\ lastLoginTime' = calls'[Len(calls')].acceptedAt
              /\ lastLoginTime' = clock]_vars
    /\ [](nav.verdict = "cooldown"
           => /\ Len(calls) > 0
              /\ nav.at - calls[Len(calls)].acceptedAt < COOLDOWN_MS)

\* a second login was accepted exactly COOLDOWN_MS after the first one was accepted,
\* which is less than COOLDOWN_MS after the first event was created
C37_Witness ==
    /\ Len(calls) = 2
    /\ nav.verdict = "accepted"
    /\ nav.at = calls[2].acceptedAt
    /\ calls[2].acceptedAt - calls[1].acceptedAt = COOLDOWN_MS
    /\ calls[1].event.detected_at > calls[1].acceptedAt

\* C38: after an accepted event whose storeLoginEvent call was rejected, a qualifying
\* navigation handled less than COOLDOWN_MS after the accepted one is skipped (no step
\* that starts a call or moves the cooldown timestamp is the handling of such a
\* navigation), and neither of the two logins is stored.
C38_CooldownDespiteFailedWrite ==
    /\ [][( /\ Len(calls) > 0
            /\ calls[Len(calls)].pc = "rejected"
            /\ clock - calls[Len(calls)].acceptedAt < COOLDOWN_MS
            /\ ~UNCHANGED <<calls, lastLoginTime>>
            /\ storage' = storage
            /\ Len(calls') >= Len(calls)
            /\ SubSeq(calls', 1, Len(calls)) = calls )
          => ~\E frameId \in FrameIds, url \in Urls, tabId \in Tabs, lag \in Lags, skew \in Skews :
                 /\ QualifyingNav(frameId, url)
                 /\ HandleNavigationCompleted(frameId, url, tabId, lag, skew)]_vars
    /\ []((/\ Len(calls) = 1
           /\ calls[1].pc = "rejected"
           /\ nav.verdict = "cooldown"
           /\ nav.at - calls[1].acceptedAt < COOLDOWN_MS)
          => LoginEvents = <<>>)

\* C39: the listener is registered exactly when initialize() has completed its storage
\* check without error (metadata then exists, unless the storage was reset); once the check has failed it stays
\* failed, no listener is registered and no navigation is ever handled.
C39_ListenerIffStartupOk ==
    /\ [](listening <=> initPc = "done")
    /\ []((listening /\ ~cleared) => Has(storage, "metadata"))
    /\ [](initPc = "failed" => ~listening /\ calls = <<>> /\ nav = NoNav)
    /\ [][initPc = "failed" => initPc' = "failed"]_vars
    /\ [][listening => listening']_vars

\* the first-run initialisation failed; the install handler initialised the storage
\* later on and time went by, and still no listener is registered
C39_Witness ==
    /\ initPc = "failed"
    /\ installPc = "installed"
    /\ Has(storage, "metadata")
    /\ clock \notin StartClocks
    /\ ~listening

\* the history view shows what the renderHistory call completed last has written
HistorySettled == history.loading = "hidden"

\* C34: after a successful load the history view lists the last HISTORY_LIMIT stored
\* events (all when there are fewer), the one stored last first, numbered from 1; and
\* the no-events message is on display exactly when the load completed last succeeded
\* and returned no events.
C34_HistoryLastHundred ==
    HistorySettled
    => /\ (history.last = "ok" /\ Len(history.loaded) > 0)
          => LET n == Len(history.loaded)
                 k == IF n > HISTORY_LIMIT THEN HISTORY_LIMIT ELSE n
             IN  /\ history.list = "shown"
                 /\ Len(history.items) = k
                 /\ \A i \in 1..k :
                       /\ history.items[i].icon = ToString(i)
                       /\ history.items[i].url = history.loaded[n + 1 - i].url
                       /\ history.items[i].timestamp
                             = formatLoginEvent(history.loaded[n + 1 - i].timestamp)
       /\ (history.empty = "shown" /\ history.emptyHtml = "no-events")
          <=> (history.last = "ok" /\ Len(history.loaded) = 0)

\* C40: when the history load completed last succeeded, the error text is not on display.
C40_ErrorOnlyAfterFailedLoad ==
    (HistorySettled /\ history.last = "ok")
    => ~(history.empty = "shown" /\ history.emptyHtml = "error")

\* C35: calculateGradientColors returns one colour per data point; when the counts
\* differ, the points with the smallest count get rgb(173, 216, 230), those with the
\* largest rgb(0, 61, 107), and no channel of a point with a larger count is above that
\* of a point with a smaller one; when all counts are equal every point gets
\* rgb(0, 120, 212).
C35_GradientColors ==
    fx.op = "calculateGradientColors"
    => LET points == fx.dataPoints
           allEqual == \A i, j \in DOMAIN points : points[i].count = points[j].count
       IN  /\ Len(fx.result) = Len(points)
           /\ \A i \in DOMAIN points : fx.result[i] = RgbString(fx.channels[i])
           /\ allEqual => \A i \in DOMAIN points : fx.result[i] = "rgb(0, 120, 212)"
           /\ ~allEqual
              => \A i \in DOMAIN points :
                    /\ (\A j \in DOMAIN points : points[i].count <= points[j].count)
                       => fx.result[i] = "rgb(173, 216, 230)"
                    /\ (\A j \in DOMAIN points : points[i].count >= points[j].count)
                       => fx.result[i] = "rgb(0, 61, 107)"
                    /\ \A j \in DOMAIN points :
                          points[i].count < points[j].count
                          => /\ fx.channels[j].r <= fx.channels[i].r
                             /\ fx.channels[j].g <= fx.channels[i].g
                             /\ fx.channels[j].b <= fx.channels[i].b

\* three bars with three different counts; the green of the middle one is
\* 216 - 155 * (43 / 62), which comes out just below 108.5 in Number arithmetic
C35_Witness ==
    /\ fx.op = "calculateGradientColors"
    /\ Len(fx.dataPoints) = 3
    /\ fx.dataPoints[1].count = 0 /\ fx.dataPoints[2].count = 62 /\ fx.dataPoints[3].count = 43
    /\ fx.result = <<"rgb(173, 216, 230)", "rgb(0, 61, 107)", "rgb(53, 108, 145)">>

\* C36: a bar whose count is zero gets rgb(173, 216, 230).
C36_ZeroIsLightest ==
    fx.op = "calculateGradientColors"
    => \A i \in DOMAIN fx.dataPoints :
          fx.dataPoints[i].count = 0 => fx.result[i] = "rgb(173, 216, 230)"

\* C36 as amended: a bar whose count is zero gets rgb(173, 216, 230) when the counts of
\* the list are not all equal, and rgb(0, 120, 212), like every other bar, when they are.
C36_ZeroIsLightestUnlessAllEqual ==
    fx.op = "calculateGradientColors"
    => \A i \in DOMAIN fx.dataPoints :
          fx.dataPoints[i].count = 0
          => fx.result[i] = IF \A j \in DOMAIN fx.dataPoints : fx.dataPoints[j].count = 0
                            THEN "rgb(0, 120, 212)"
                            ELSE "rgb(173, 216, 230)"

\* bars without logins after a bar with logins
C36_Witness ==
    /\ fx.op = "calculateGradientColors"
    /\ Len(fx.dataPoints) = 3
    /\ fx.dataPoints[1].count = 3 /\ fx.dataPoints[2].count = 0 /\ fx.dataPoints[3].count = 0
    /\ fx.result[2] = "rgb(173, 216, 230)"

====
